---- MODULE Spec2Model ----
(***************************************************************************)
(* Swiss Cheese verification orchestrator.                                 *)
(*                                                                         *)
(*   - TaskScheduler (swiss-cheese-verifier/orchestrator/scheduler.py):    *)
(*     topological batching of tasks, specification SchedSpec.             *)
(*   - Hook orchestrator (swiss-cheese/hooks/orchestrate.py): the Stop /   *)
(*     SubagentStop handlers over the persisted OrchestratorStatus,        *)
(*     specification Spec (EditSpec with edits of the design document,     *)
(*     FairSpec for a session that keeps going).                           *)
(*   - TaskScheduler called twice (TwiceSpec), get_task_order (OrderSpec), *)
(*     schedule_layers (LayerSpec).                                        *)
(*   - SwissCheeseOrchestrator.run_verification (orchestrator/core.py),    *)
(*     specification VerifySpec.                                           *)
(*   - WorktreeManager (swiss-cheese-verifier/worktree/manager.py) and the *)
(*     hook's worktree functions: the merge pass (GitSpec), creating and   *)
(*     removing workspaces (WtSpec).                                       *)
(***************************************************************************)
EXTENDS Integers, Sequences, FiniteSets, TLC

(***************************************************************************)
(* Bounds of the scheduler model.                                          *)
(***************************************************************************)
\* Task names a configuration and a filter may use.
TaskNames == {"a", "b", "c", "d"}

\* Largest number of depends_on entries in one configuration.
MaxEdges == 4

\* task_filter: None, or a list of task names (kept as the set of its names:
\* _get_tasks builds a dict keyed by them).
NoFilter == [given |-> FALSE, names |-> {}]

Filters == {NoFilter} \cup { [given |-> TRUE, names |-> S] : S \in SUBSET TaskNames }

VARIABLES
    \* ---- TaskScheduler ----
    config_tasks,       \* self.config.tasks: task name -> depends_on
    task_filter,        \* argument of the running / last schedule_tasks call
    tasks_to_schedule,  \* keys of the dict built by _get_tasks
    graph,              \* task name -> dependencies kept in the graph
    npredecessors,      \* sorter: remaining in-degree (-1 passed out, -2 done)
    ready_nodes,        \* sorter: nodes ready and not yet passed out
    npassedout,         \* sorter: number of nodes passed out by get_ready
    nfinished,          \* sorter: number of nodes marked done
    batches,            \* sequence of batches, each the set of its task names
    total_tasks,        \* ScheduleResult.total_tasks
    max_parallelism,    \* ScheduleResult.max_parallelism
    sched_pc,           \* "idle" | "loop" | "returned" | "raised"
    prev_result,        \* what the call before the running / last one returned
    order_result,       \* what get_task_order returned
    config_layers,      \* self.config.layers: layer name -> depends_on
    layers_result,      \* what schedule_layers returned
    \* ---- hook orchestrator ----
    design,             \* the validated design document on disk
    status_file,        \* the persisted OrchestratorStatus (NoStatus: no file)
    status,             \* the status object of the last handler at its return
    outcome,            \* which return statement the last handler took
    gate_call,          \* the gate invocation of the last handler, if any
    dispatched_now,     \* tasks the last handler moved to Dispatched
    reinitialized,      \* the last handler replaced the status by a fresh one
    \* ---- SwissCheeseOrchestrator.run_verification ----
    dry_run,            \* self.dry_run
    verify_pc,          \* "schedule" | "gather" | "report" | "idle"
    batch_index,        \* number of batches of the schedule already run
    running,            \* tasks whose _run_task coroutine has been started
    results,            \* task name -> status of its TaskResult
    \* ---- git repository, WorktreeManager and the hook's rebase ----
    impl,               \* "manager": linear_rebase_all, "hook": rebase_layer_tasks
    has_origin,         \* the repository has a remote named origin
    conflicts,          \* pairs of commits that touch the same lines
    origin_main,        \* branch main of the remote
    tracking,           \* refs/remotes/origin/main as last fetched
    trunk,              \* local branch main
    branches,           \* workspace name -> commits of its branch
    registered,         \* self._worktrees / tasks with a worktree_path
    wt_dirs,            \* workspace names whose directory exists
    worktree_order,     \* argument of the pass
    reverify_given,     \* a reverify_callback was supplied
    pass_i,             \* index of the workspace being processed
    pass_pc,            \* "rebase" | "reverify" | "merge" | "returned" |
                        \* "raised" | "idle"
    pass_results,       \* the list of (name, success) built so far
    pass_log,           \* per processed workspace: what happened to it
    reverify_calls,     \* the awaited reverify_callback calls and their results
    \* ---- creating and removing workspaces ----
    wt_impl,            \* "manager": WorktreeManager, "hook": orchestrate.py
    mgr_worktrees,      \* self._worktrees: safe name -> WorktreeInfo
    wt_disk,            \* directory under the base path -> the worktree in it
    git_branches,       \* the branches of the repository besides main
    locked,             \* directories locked with git worktree lock
    clock,              \* datetime.now(), in seconds
    wt_last,            \* the last call: what it returned, which git commands failed
    \* ---- run_verification, batch by batch, with its report ----
    schedule,           \* the batches of the schedule, each a list of task names
    task_layer,         \* self.config.tasks[name].layer
    run_i,              \* number of batches whose results are in the report
    coros,              \* per task of the batch being run: its coroutine
    finished,           \* positions in the batch, in the order the tasks finished
    batch_results,      \* what the last _run_batch call returned
    report,             \* self.report
    run_pc,             \* "loop" | "gather" | "batch_done" | "returned" |
                        \* "raised" | "idle"
    \* ---- SubagentStop handlers running at the same time ----
    handlers            \* per handler process: where it is, its status object

schedVars == << config_tasks, task_filter, tasks_to_schedule, graph,
                npredecessors, ready_nodes, npassedout, nfinished, batches,
                total_tasks, max_parallelism, sched_pc >>

hookVars == << design, status_file, status, outcome, gate_call, dispatched_now,
              reinitialized >>

verifyVars == << dry_run, verify_pc, batch_index, running, results >>

gitVars == << impl, has_origin, conflicts, origin_main, tracking, trunk,
             branches, registered, wt_dirs, worktree_order, reverify_given,
             pass_i, pass_pc, pass_results, pass_log, reverify_calls >>

wtVars == << wt_impl, mgr_worktrees, wt_disk, git_branches, locked, clock,
            wt_last >>

runVars == << schedule, task_layer, run_i, coros, finished, batch_results,
             report, run_pc >>

raceVars == << handlers >>

\* The other entry points of the scheduler and the earlier call.
queryVars == << prev_result, order_result, config_layers, layers_result >>

\* The variables of the other components.
notSchedVars == << queryVars, hookVars, verifyVars, gitVars, wtVars, runVars, raceVars >>

\* (The handlers of the hook leave raceVars alone as well; the handlers that
\* run at the same time are steps of their own.)
notHookVars == << schedVars, queryVars, verifyVars, gitVars, wtVars, runVars >>

notVerifyVars == << queryVars, hookVars, gitVars, wtVars, runVars, raceVars >>

notGitVars == << schedVars, queryVars, hookVars, verifyVars, wtVars, runVars, raceVars >>

notWtVars == << schedVars, queryVars, hookVars, verifyVars, gitVars, runVars,
               raceVars >>

notRunVars == << schedVars, queryVars, hookVars, verifyVars, gitVars, wtVars,
                raceVars >>

vars == << schedVars, queryVars, hookVars, verifyVars, gitVars, wtVars, runVars, raceVars >>

(***************************************************************************)
(* Helpers.                                                                *)
(***************************************************************************)
Max(x, y) == IF x >= y THEN x ELSE y

RECURSIVE SumCard(_, _)
SumCard(f, D) ==
    IF D = {} THEN 0
    ELSE LET n == CHOOSE m \in D : TRUE
         IN Cardinality(f[n]) + SumCard(f, D \ {n})

\* Every configuration: a dict of tasks, each with a depends_on list over
\* the task names (names that are no key of the dict are unknown tasks).
ConfigSpace == UNION { [D -> SUBSET TaskNames] : D \in SUBSET TaskNames }

(***************************************************************************)
(* TaskScheduler._get_tasks: the dict of tasks to schedule (its keys).     *)
(***************************************************************************)
GetTasks_IgnoreFilter(cfg, f) == DOMAIN cfg

GetTasks(cfg, f) ==
    IF ~f.given THEN DOMAIN cfg
    ELSE { name \in f.names : name \in DOMAIN cfg }

(***************************************************************************)
(* schedule_tasks, lines 66-71: the dependency graph, dependencies         *)
(* outside the scheduled tasks dropped.                                    *)
(***************************************************************************)
BuildGraph(cfg, tts) ==
    [ name \in tts |-> { d \in cfg[name] : d \in tts } ]

(***************************************************************************)
(* graphlib.TopologicalSorter as schedule_tasks uses it.                   *)
(***************************************************************************)
\* prepare(): depth-first search for a cycle; a node met again while it is
\* on the search path closes a cycle.
RECURSIVE OnPathDFS(_, _, _)
OnPathDFS(g, node, path) ==
    \/ node \in path
    \/ \E d \in g[node] : OnPathDFS(g, d, path \cup {node})

FindCycle_MissSelf(g) ==
    \E node \in DOMAIN g :
        \E d \in g[node] \ {node} : OnPathDFS(g, d, {node})

FindCycle(g) == \E node \in DOMAIN g : OnPathDFS(g, node, {})

\* is_active()
IsActive == nfinished < npassedout \/ ready_nodes # {}

\* get_ready(): every node that is ready, all of them passed out at once.
GetReady_OnlyOne(rn) == IF rn = {} THEN {} ELSE { CHOOSE n \in rn : TRUE }

GetReady(rn) == rn

\* done(node) for every node of ready: the in-degrees afterwards.
DoneAll_NoDecrement(np, g, ready) ==
    [ m \in DOMAIN np |-> IF m \in ready THEN -2 ELSE np[m] ]

DoneAll(np, g, ready) ==
    [ m \in DOMAIN np |->
        IF m \in ready THEN -2
        ELSE np[m] - Cardinality(g[m] \cap ready) ]

\* done(node): the nodes whose in-degree reached zero become ready.
NewlyReady_AnyDecrement(np, np2) ==
    { m \in DOMAIN np : np[m] > 0 /\ np2[m] < np[m] }

NewlyReady(np, np2) ==
    { m \in DOMAIN np : np[m] > 0 /\ np2[m] = 0 }

(***************************************************************************)
(* schedule_tasks.                                                         *)
(***************************************************************************)
\* Lines 64-84: build the graph, create and prepare a new sorter, start
\* with no batches.
PrepareSorter_KeepsSorter(f) ==
    /\ LET tts == GetTasks(config_tasks, f)
           g   == BuildGraph(config_tasks, tts)
       IN /\ task_filter' = f
          /\ tasks_to_schedule' = tts
          /\ graph' = g
          /\ IF sched_pc = "idle"
             THEN /\ npredecessors' = [ n \in tts |-> Cardinality(g[n]) ]
                  /\ ready_nodes' = { n \in tts : g[n] = {} }
                  /\ npassedout' = 0
                  /\ nfinished' = 0
             ELSE UNCHANGED << npredecessors, ready_nodes, npassedout,
                               nfinished >>
          /\ sched_pc' = IF FindCycle(g) THEN "raised" ELSE "loop"
    /\ batches' = << >>
    /\ total_tasks' = 0
    /\ max_parallelism' = 0

PrepareSorter(f) ==
    /\ LET tts == GetTasks(config_tasks, f)
           g   == BuildGraph(config_tasks, tts)
       IN /\ task_filter' = f
          /\ tasks_to_schedule' = tts
          /\ graph' = g
          /\ npredecessors' = [ n \in tts |-> Cardinality(g[n]) ]
          /\ ready_nodes' = { n \in tts : g[n] = {} }
          /\ sched_pc' = IF FindCycle(g) THEN "raised" ELSE "loop"
    /\ npassedout' = 0
    /\ nfinished' = 0
    /\ batches' = << >>
    /\ total_tasks' = 0
    /\ max_parallelism' = 0

\* The first schedule_tasks call on a scheduler.
ScheduleTasks(f) ==
    /\ sched_pc = "idle"
    /\ PrepareSorter(f)
    /\ UNCHANGED << config_tasks, notSchedVars >>

\* No earlier call.
NoResult == [ returned |-> FALSE ]

\* get_task_order / schedule_layers has not been called.
NotCalled == [ called |-> FALSE ]

\* The scheduler has been called at most once, for tasks.
QueryIdle ==
    /\ prev_result = NoResult
    /\ order_result = NotCalled
    /\ layers_result = NotCalled

\* A second schedule_tasks call on the same scheduler, after the first
\* returned or raised.
ScheduleAgain(f) ==
    /\ sched_pc \in {"returned", "raised"}
    /\ prev_result = NoResult
    /\ prev_result' = IF sched_pc = "returned"
                      THEN [ returned |-> TRUE, task_filter |-> task_filter,
                             batches |-> batches,
                             total_tasks |-> total_tasks,
                             max_parallelism |-> max_parallelism ]
                      ELSE [ returned |-> FALSE, raised |-> TRUE ]
    /\ PrepareSorter(f)
    /\ UNCHANGED << config_tasks, order_result, config_layers, layers_result,
                    hookVars, verifyVars, gitVars, wtVars, runVars, raceVars >>

\* Lines 86-103: one iteration of the while loop.
ScheduleLoop ==
    /\ sched_pc = "loop"
    /\ IsActive
    /\ LET ready == GetReady(ready_nodes)
           np2   == DoneAll(npredecessors, graph, ready)
       IN IF ready = {}
          THEN \* break
               /\ sched_pc' = "returned"
               /\ total_tasks' = Cardinality(tasks_to_schedule)
               /\ UNCHANGED << npredecessors, ready_nodes, npassedout,
                               nfinished, batches, max_parallelism >>
          ELSE /\ batches' = Append(batches, ready)
               /\ max_parallelism' = Max(max_parallelism, Cardinality(ready))
               /\ npassedout' = npassedout + Cardinality(ready)
               /\ nfinished' = nfinished + Cardinality(ready)
               /\ npredecessors' = np2
               /\ ready_nodes' = (ready_nodes \ ready) \cup NewlyReady(npredecessors, np2)
               /\ UNCHANGED << sched_pc, total_tasks >>
    /\ UNCHANGED << config_tasks, task_filter, tasks_to_schedule, graph,
                    notSchedVars >>

\* Lines 86, 105-109: the loop ends, the result is returned.
ScheduleReturn ==
    /\ sched_pc = "loop"
    /\ ~IsActive
    /\ sched_pc' = "returned"
    /\ total_tasks' = Cardinality(tasks_to_schedule)
    /\ UNCHANGED << config_tasks, task_filter, tasks_to_schedule, graph,
                    npredecessors, ready_nodes, npassedout, nfinished,
                    batches, max_parallelism, notSchedVars >>


(***************************************************************************)
(* Hook orchestrator: layers (schema.py LAYERS).                           *)
(***************************************************************************)
\* list(LAYERS.keys())
LayerOrder ==
    << "requirements", "architecture", "tdd", "implementation",
       "static_analysis", "formal_verification", "dynamic_analysis",
       "review", "safety" >>

LayerNames == { LayerOrder[i] : i \in 1..Len(LayerOrder) }

\* LAYERS[l]["depends_on"]
LayerDependsOn ==
    [ l \in LayerNames |->
        CASE l = "requirements"        -> {}
          [] l = "architecture"        -> {"requirements"}
          [] l = "tdd"                 -> {"architecture"}
          [] l = "implementation"      -> {"tdd"}
          [] l = "static_analysis"     -> {"implementation"}
          [] l = "formal_verification" -> {"static_analysis"}
          [] l = "dynamic_analysis"    -> {"implementation"}
          [] l = "review"              -> {"static_analysis", "dynamic_analysis"}
          [] l = "safety"              -> {"review", "formal_verification"} ]

\* LAYERS[l].get("optional")
LayerOptional == {"formal_verification"}

LayerIndex(l) == CHOOSE i \in 1..Len(LayerOrder) : LayerOrder[i] = l

(***************************************************************************)
(* Design documents accepted by validate_design_document.                  *)
(***************************************************************************)
\* Task names in the order of the [tasks] table (the dict order).
TaskOrder == << "t1", "t2", "t3" >>

\* Layers the tasks of a design are drawn from.
DesignLayers == {"requirements", "safety"}

\* Largest number of depends_on entries in one design.
MaxDepEdges == 2

\* project.max_iterations is drawn from 0..MaxIterBound.
MaxIterBound == 2

\* project.max_parallel_agents
ParallelChoices == {1, 2}

DesignTaskSets == { { TaskOrder[i] : i \in 1..k } : k \in 0..Len(TaskOrder) }

TaskPos(n) == CHOOSE i \in 1..Len(TaskOrder) : TaskOrder[i] = n

\* validate_design_document: every task names a valid layer and every
\* depends_on entry names a task of the document.  Task names are
\* interchangeable, so designs list their tasks by layer.
Designs ==
    { d \in [ tasks : UNION { [ D -> [ layer : DesignLayers,
                                      depends_on : SUBSET D ] ]
                              : D \in DesignTaskSets },
              max_iterations : 0..MaxIterBound,
              max_parallel : ParallelChoices,
              hash : {0} ] :
        /\ \A m, n \in DOMAIN d.tasks :
               TaskPos(m) <= TaskPos(n) =>
                   LayerIndex(d.tasks[m].layer) <= LayerIndex(d.tasks[n].layer)
        /\ SumCard([ n \in DOMAIN d.tasks |-> d.tasks[n].depends_on ],
                   DOMAIN d.tasks) <= MaxDepEdges }

(***************************************************************************)
(* OrchestratorStatus.                                                     *)
(***************************************************************************)
\* OrchestratorStatus.load returned None.
NoStatus == [ current_layer |-> "none" ]

NoGate == [ ran |-> FALSE, layer |-> "none", passed |-> FALSE,
            run |-> "none", exit_code |-> 0,
            pre |-> << >>, post |-> << >> ]

\* init_status_from_design.  worktree_path: TRUE when a path is recorded.
\* Not kept: the descriptive fields, last_commit and last_error, the
\* traceability entries and the count of dispatch rounds (status.iteration);
\* no transition reads them.
init_status_from_design(d) ==
    [ design_doc_hash |-> d.hash,
      current_layer |-> "requirements",
      max_iterations |-> d.max_iterations,
      max_parallel |-> d.max_parallel,
      tasks |-> [ n \in DOMAIN d.tasks |->
                    [ layer |-> d.tasks[n].layer,
                      depends_on |-> d.tasks[n].depends_on,
                      status |-> "pending",
                      iteration |-> 0,
                      worktree_path |-> FALSE ] ],
      gates |-> [ l \in LayerNames |-> "not_run" ] ]

\* status.tasks.items(), in dict order
TaskSeq(s) == SelectSeq(TaskOrder, LAMBDA n : n \in DOMAIN s.tasks)

SeqToSet(q) == { q[i] : i \in 1..Len(q) }

Min(x, y) == IF x <= y THEN x ELSE y

\* The Python slice q[:k]: the first k elements, all of q when it is
\* shorter; for a negative k all but the last -k elements.
SliceTo(q, k) ==
    IF k >= 0 THEN SubSeq(q, 1, Min(k, Len(q)))
    ELSE IF Len(q) + k > 0 THEN SubSeq(q, 1, Len(q) + k)
    ELSE << >>

\* get_ready_tasks: pending tasks of the current layer whose dependencies
\* are all passed, the first max_parallel of them (ready[:max_parallel]).
DepsOk_Always(s, n) == TRUE

DepsOk(s, n) ==
    \A dep \in s.tasks[n].depends_on :
        dep \in DOMAIN s.tasks /\ s.tasks[dep].status = "passed"

get_ready_tasks_AnyLayer(s) ==
    LET ready == SelectSeq(TaskSeq(s), LAMBDA n :
                     /\ s.tasks[n].status = "pending"
                     /\ DepsOk(s, n))
    IN SeqToSet(SliceTo(ready, s.max_parallel))

get_ready_tasks(s) ==
    LET ready == SelectSeq(TaskSeq(s), LAMBDA n :
                     /\ s.tasks[n].layer = s.current_layer
                     /\ s.tasks[n].status = "pending"
                     /\ DepsOk(s, n))
    IN SeqToSet(SliceTo(ready, s.max_parallel))

\* get_dispatched_tasks
get_dispatched_tasks(s) ==
    { n \in DOMAIN s.tasks : s.tasks[n].status = "dispatched" }

\* all_layer_tasks_complete
all_layer_tasks_complete(s, layer) ==
    \A n \in DOMAIN s.tasks :
        s.tasks[n].layer = layer => s.tasks[n].status \in {"passed", "skipped"}

\* get_next_layer ("none": None)
get_next_layer_SkipOne(current) ==
    IF current \in LayerNames /\ LayerIndex(current) + 2 <= Len(LayerOrder)
    THEN LayerOrder[LayerIndex(current) + 2]
    ELSE "none"

get_next_layer(current) ==
    IF current \in LayerNames /\ LayerIndex(current) + 1 <= Len(LayerOrder)
    THEN LayerOrder[LayerIndex(current) + 1]
    ELSE "none"

\* Dispatched -> Completed for the named tasks.
MarkCompleted(tasks, names) ==
    [ n \in DOMAIN tasks |->
        IF n \in names THEN [ tasks[n] EXCEPT !.status = "completed" ]
        ELSE tasks[n] ]

\* rebase_layer_tasks: every passed task of the layer is rebased and merged;
\* a task whose rebase succeeded has its worktree_path cleared.  failing:
\* the tasks whose git rebase or merge fails.
rebase_layer_tasks(tasks, layer, failing) ==
    [ n \in DOMAIN tasks |->
        IF tasks[n].layer = layer /\ tasks[n].status = "passed"
           /\ n \notin failing
        THEN [ tasks[n] EXCEPT !.worktree_path = FALSE ]
        ELSE tasks[n] ]

\* The tasks whose rebase can fail: passed tasks of the layer with a worktree.
RebaseCandidates(tasks, layer) ==
    { n \in DOMAIN tasks :
        tasks[n].layer = layer /\ tasks[n].status = "passed"
        /\ tasks[n].worktree_path }

(***************************************************************************)
(* The gate result applied to the tasks (handle_stop_event).               *)
(***************************************************************************)
\* Lines 899-908: the gate passed.
StopGatePass_WholeLayer(tasks, completed_tasks, layer) ==
    [ n \in DOMAIN tasks |->
        IF tasks[n].layer = layer
        THEN [ tasks[n] EXCEPT !.status = "passed" ]
        ELSE tasks[n] ]

StopGatePass(tasks, completed_tasks, layer) ==
    [ n \in DOMAIN tasks |->
        IF n \in completed_tasks /\ tasks[n].layer = layer
        THEN [ tasks[n] EXCEPT !.status = "passed" ]
        ELSE tasks[n] ]

\* Lines 923-935: the gate failed.
StopGateFail_ResetsLayer(tasks, completed_tasks, layer, max_iterations) ==
    [ n \in DOMAIN tasks |->
        IF tasks[n].layer = layer
        THEN [ tasks[n] EXCEPT !.iteration = @ + 1, !.status = "pending" ]
        ELSE tasks[n] ]

StopGateFail(tasks, completed_tasks, layer, max_iterations) ==
    [ n \in DOMAIN tasks |->
        IF n \in completed_tasks /\ tasks[n].layer = layer
        THEN [ tasks[n] EXCEPT
                 !.iteration = @ + 1,
                 !.status = IF tasks[n].iteration + 1 >= max_iterations
                            THEN "failed" ELSE "pending" ]
        ELSE tasks[n] ]

(***************************************************************************)
(* The gate result applied to the tasks (handle_subagent_stop).            *)
(***************************************************************************)
\* Lines 709-714: the gate passed.
SubagentGatePass(tasks, layer) ==
    [ n \in DOMAIN tasks |->
        IF tasks[n].layer = layer /\ tasks[n].status = "completed"
        THEN [ tasks[n] EXCEPT !.status = "passed" ]
        ELSE tasks[n] ]

\* Lines 765-775: the gate failed.
SubagentGateFail_RetryBeyondCap(tasks, layer, max_iterations) ==
    [ n \in DOMAIN tasks |->
        IF tasks[n].layer = layer /\ tasks[n].status = "completed"
        THEN [ tasks[n] EXCEPT
                 !.iteration = @ + 1,
                 !.status = IF tasks[n].iteration + 1 > max_iterations
                            THEN "failed" ELSE "pending" ]
        ELSE tasks[n] ]

SubagentGateFail(tasks, layer, max_iterations) ==
    [ n \in DOMAIN tasks |->
        IF tasks[n].layer = layer /\ tasks[n].status = "completed"
        THEN [ tasks[n] EXCEPT
                 !.iteration = @ + 1,
                 !.status = IF tasks[n].iteration + 1 >= max_iterations
                            THEN "failed" ELSE "pending" ]
        ELSE tasks[n] ]

\* What a run of "make <target>" can come to: no Makefile in the project
\* root, make exits with status 0 or with another status, the ten minute
\* timeout expires.  (A make command that is not found, or any other
\* exception of subprocess.run, gives the result of the timeout.)
GateRuns == {"no_makefile", "exit_zero", "exit_nonzero", "timeout"}

\* The status make exits with when it fails.
MakeFailure == 2

\* run_makefile_gate: the (passed, exit_code) part of its result.
run_makefile_gate_TimeoutPasses(run) ==
    CASE run = "no_makefile"    -> [ returned |-> TRUE, passed |-> FALSE, exit_code |-> 1 ]
      [] run = "exit_zero"      -> [ returned |-> TRUE, passed |-> TRUE, exit_code |-> 0 ]
      [] run = "exit_nonzero"   -> [ returned |-> TRUE, passed |-> FALSE, exit_code |-> MakeFailure ]
      [] run = "timeout"        -> [ returned |-> TRUE, passed |-> TRUE, exit_code |-> 0 ]

run_makefile_gate(run) ==
    CASE run = "no_makefile"    -> [ returned |-> TRUE, passed |-> FALSE, exit_code |-> 1 ]
      [] run = "exit_zero"      -> [ returned |-> TRUE, passed |-> TRUE, exit_code |-> 0 ]
      [] run = "exit_nonzero"   -> [ returned |-> TRUE, passed |-> FALSE, exit_code |-> MakeFailure ]
      [] run = "timeout"        -> [ returned |-> TRUE, passed |-> FALSE, exit_code |-> -1 ]

\* run_makefile_gate was called for layer with the tasks as in pre; post:
\* the tasks after its result was applied.
GateCall(layer, run, pre, post) ==
    [ ran |-> TRUE, layer |-> layer, passed |-> run_makefile_gate(run).passed,
      run |-> run, exit_code |-> run_makefile_gate(run).exit_code,
      pre |-> pre, post |-> post ]

\* A handler returns: mem is its status object, file what the status file
\* then holds.
Return(event, result, mem, file, gate, disp) ==
    /\ status' = mem
    /\ status_file' = file
    /\ outcome' = [ event |-> event, result |-> result ]
    /\ gate_call' = gate
    /\ dispatched_now' = disp
    /\ UNCHANGED << design, notHookVars >>

(***************************************************************************)
(* handle_stop_event.                                                      *)
(***************************************************************************)
\* Lines 986-1031: dispatch the ready tasks, or wait, or approve.
\* created: the tasks for which create_worktree returned a path.
StopDispatch(s, gate) ==
    LET ready_tasks == get_ready_tasks(s)
        pending == { n \in DOMAIN s.tasks :
                       s.tasks[n].status = "pending"
                       /\ s.tasks[n].layer = s.current_layer }
    IN IF ready_tasks # {}
       THEN \E created \in SUBSET ready_tasks :
                LET s2 == [ s EXCEPT !.tasks =
                              [ n \in DOMAIN s.tasks |->
                                  IF n \in ready_tasks
                                  THEN [ s.tasks[n] EXCEPT
                                           !.status = "dispatched",
                                           !.worktree_path =
                                               (n \in created) \/ @ ]
                                  ELSE s.tasks[n] ] ]
                IN Return("Stop", "dispatch", s2, s2, gate, ready_tasks)
       ELSE IF pending # {}
            THEN Return("Stop", "waiting_dependencies", s, s, gate, {})
            ELSE Return("Stop", "approve", s, s, gate, {})

\* Lines 954-984: advance the layer pointer, or report the run complete
\* (that return does not save the status: the file keeps saved).
StopAdvance(s, saved, gate) ==
    IF all_layer_tasks_complete(s, s.current_layer)
    THEN LET next_layer == get_next_layer(s.current_layer)
         IN IF next_layer # "none"
            THEN StopDispatch([ s EXCEPT !.current_layer = next_layer ], gate)
            ELSE Return("Stop", "all_complete", s, saved, gate, {})
    ELSE StopDispatch(s, gate)

\* Lines 884-952: run the gate of the current layer when tasks are completed.
StopValidate(s, saved) ==
    LET completed_tasks == { n \in DOMAIN s.tasks :
                               s.tasks[n].status = "completed" }
        layer == s.current_layer
    IN IF completed_tasks = {}
       THEN StopAdvance(s, saved, NoGate)
       ELSE \E run \in GateRuns :
              IF run_makefile_gate(run).passed
              THEN LET t2 == StopGatePass(s.tasks, completed_tasks, layer)
                       gate == GateCall(layer, run, s.tasks, t2)
                   IN \E failing \in SUBSET RebaseCandidates(t2, layer) :
                        LET s3 == [ s EXCEPT
                                      !.gates[layer] = "passed",
                                      !.tasks = rebase_layer_tasks(t2, layer, failing) ]
                        IN IF failing # {}
                           THEN Return("Stop", "rebase_failed", s3, s3, gate, {})
                           ELSE StopAdvance(s3, saved, gate)
              ELSE LET t2 == StopGateFail(s.tasks, completed_tasks, layer,
                                          s.max_iterations)
                       s3 == [ s EXCEPT !.gates[layer] = "failed",
                                        !.tasks = t2 ]
                   IN Return("Stop", "gate_failed", s3, s3,
                             GateCall(layer, run, s.tasks, t2), {})

\* Lines 837-882: load or create the status, record the dispatched tasks
\* that have completed (new commits or transcript evidence), wait while
\* some are still running.
handle_stop_event ==
    LET reinit == \/ status_file.current_layer = "none"
                  \/ status_file.design_doc_hash # design.hash
        s0 == IF reinit THEN init_status_from_design(design) ELSE status_file
        dispatched == get_dispatched_tasks(s0)
    IN /\ reinitialized' = reinit
       /\ UNCHANGED raceVars
       /\ \E completed \in SUBSET dispatched :
            LET s1 == [ s0 EXCEPT !.tasks = MarkCompleted(@, completed) ]
            IN IF dispatched # {} /\ dispatched \ completed # {}
               THEN Return("Stop", "waiting_subagents", s1, s1, NoGate, {})
               ELSE StopValidate(s1, s0)

(***************************************************************************)
(* handle_subagent_stop.  task_name: what identify_task_from_subagent      *)
(* returned ("none": no task identified).                                  *)
(***************************************************************************)
\* Lines 701-791: every dispatched task of the layer is done, run its gate.
SubagentValidate(s, layer) ==
    \E run \in GateRuns :
      IF run_makefile_gate(run).passed
      THEN LET t2 == SubagentGatePass(s.tasks, layer)
               gate == GateCall(layer, run, s.tasks, t2)
           IN \E failing \in SUBSET RebaseCandidates(t2, layer) :
                LET s3 == [ s EXCEPT
                              !.gates[layer] = "passed",
                              !.tasks = rebase_layer_tasks(t2, layer, failing) ]
                    next_layer == get_next_layer(layer)
                IN IF failing # {}
                   THEN Return("SubagentStop", "rebase_failed", s3, s3, gate, {})
                   ELSE IF all_layer_tasks_complete(s3, layer)
                        THEN IF next_layer # "none"
                             THEN LET s4 == [ s3 EXCEPT !.current_layer = next_layer ]
                                  IN Return("SubagentStop", "advanced", s4, s4, gate, {})
                             ELSE Return("SubagentStop", "all_complete", s3, s3, gate, {})
                        ELSE Return("SubagentStop", "gate_passed", s3, s3, gate, {})
      ELSE LET t2 == SubagentGateFail(s.tasks, layer, s.max_iterations)
               s3 == [ s EXCEPT !.gates[layer] = "failed", !.tasks = t2 ]
           IN Return("SubagentStop", "gate_failed", s3, s3,
                     GateCall(layer, run, s.tasks, t2), {})

\* Lines 686-691: the tasks of the layer whose subagents are still running.
LayerDispatched_None(s, layer) == {}

LayerDispatched(s, layer) ==
    { n \in DOMAIN s.tasks :
        s.tasks[n].layer = layer /\ s.tasks[n].status = "dispatched" }

\* Lines 675-677: the named task is unknown or not Dispatched.
NotDispatched_OnlyPending(s, task_name) ==
    \/ task_name \notin DOMAIN s.tasks
    \/ s.tasks[task_name].status = "pending"

NotDispatched(s, task_name) ==
    \/ task_name \notin DOMAIN s.tasks
    \/ s.tasks[task_name].status # "dispatched"

\* Lines 665-791: the handler from the status s0 it loaded.  The status is
\* used as loaded: the hash of the design document is not looked at.
SubagentStopFrom(s0, task_name) ==
       /\ reinitialized' = FALSE
       /\ IF \/ s0.current_layer = "none"
             \/ NotDispatched(s0, task_name)
          THEN Return("SubagentStop", "ignored", s0, status_file, NoGate, {})
          ELSE LET s1 == [ s0 EXCEPT !.tasks = MarkCompleted(@, {task_name}) ]
                   layer == s1.tasks[task_name].layer
                   layer_dispatched == LayerDispatched(s1, layer)
               IN IF layer_dispatched # {}
                  THEN Return("SubagentStop", "waiting_subagents", s1, s1, NoGate, {})
                  ELSE SubagentValidate(s1, layer)

\* Lines 645-663: the handler loads the status file and goes on in one step.
handle_subagent_stop(task_name) ==
    /\ SubagentStopFrom(status_file, task_name)
    /\ UNCHANGED raceVars

(***************************************************************************)
(* The scheduler on its own: one schedule_tasks call on a configuration.   *)
(***************************************************************************)
\* No call of the workspace functions yet.
NoCall == [ op |-> "none", arg |-> << >>, failed |-> {}, raised |-> FALSE,
            returned |-> << >>, attempted |-> {}, raising |-> {} ]

\* No workspace is created or removed.
WtIdle ==
    /\ wt_impl = "none"
    /\ mgr_worktrees = << >>
    /\ wt_disk = << >>
    /\ git_branches = {}
    /\ locked = {}
    /\ clock = 0
    /\ wt_last = NoCall

\* No repository, no pass.
GitIdle ==
    /\ impl = "none"
    /\ has_origin = FALSE
    /\ conflicts = {}
    /\ origin_main = << >>
    /\ tracking = << >>
    /\ trunk = << >>
    /\ branches = << >>
    /\ registered = {}
    /\ wt_dirs = {}
    /\ worktree_order = << >>
    /\ reverify_given = FALSE
    /\ pass_i = 0
    /\ pass_pc = "idle"
    /\ pass_results = << >>
    /\ pass_log = << >>
    /\ reverify_calls = << >>

\* run_verification is not called.
\* run_verification has not been called.
RunIdle ==
    /\ schedule = << >>
    /\ task_layer = << >>
    /\ run_i = 0
    /\ coros = << >>
    /\ finished = << >>
    /\ batch_results = << >>
    /\ report = << >>
    /\ run_pc = "idle"

\* No SubagentStop handler is running.
RaceIdle == handlers = << >>

VerifyIdle ==
    /\ dry_run = FALSE
    /\ verify_pc = "idle"
    /\ batch_index = 0
    /\ running = {}
    /\ results = << >>

\* No design document, no status file, no handler has run.
HookIdle ==
    /\ design = << >>
    /\ status_file = NoStatus
    /\ status = NoStatus
    /\ outcome = [ event |-> "none", result |-> "none" ]
    /\ gate_call = NoGate
    /\ dispatched_now = {}
    /\ reinitialized = FALSE

\* schedule_tasks is not called.
SchedIdle ==
    /\ config_tasks = << >>
    /\ task_filter = NoFilter
    /\ tasks_to_schedule = {}
    /\ graph = << >>
    /\ npredecessors = << >>
    /\ ready_nodes = {}
    /\ npassedout = 0
    /\ nfinished = 0
    /\ batches = << >>
    /\ total_tasks = 0
    /\ max_parallelism = 0
    /\ sched_pc = "idle"
    /\ QueryIdle

SchedInit ==
    /\ config_tasks \in { c \in ConfigSpace : SumCard(c, DOMAIN c) <= MaxEdges }
    /\ task_filter = NoFilter
    /\ tasks_to_schedule = {}
    /\ graph = << >>
    /\ npredecessors = << >>
    /\ ready_nodes = {}
    /\ npassedout = 0
    /\ nfinished = 0
    /\ batches = << >>
    /\ total_tasks = 0
    /\ max_parallelism = 0
    /\ sched_pc = "idle"
    /\ QueryIdle
    /\ config_layers = << >>
    /\ HookIdle
    /\ VerifyIdle
    /\ GitIdle
    /\ WtIdle
    /\ RunIdle
    /\ RaceIdle

SchedNext ==
    \/ \E f \in Filters : ScheduleTasks(f)
    \/ ScheduleLoop
    \/ ScheduleReturn

SchedSpec == SchedInit /\ [][SchedNext]_vars

(***************************************************************************)
(* The scheduler called twice for all tasks of a configuration.            *)
(***************************************************************************)
TwiceNext ==
    \/ ScheduleTasks(NoFilter)
    \/ ScheduleLoop
    \/ ScheduleReturn
    \/ ScheduleAgain(NoFilter)

TwiceSpec == SchedInit /\ [][TwiceNext]_vars

(***************************************************************************)
(* get_task_order: the flat order, asked for after the schedule.           *)
(***************************************************************************)
\* The orders in which a list holds the elements of S.
Perms(S) ==
    { q \in [ 1..Cardinality(S) -> S ] :
        \A i, j \in 1..Cardinality(S) : q[i] = q[j] => i = j }

\* TopologicalSorter.static_order(): while the sorter is active, the ready
\* nodes are yielded (in the order of the sorter's list, which follows the
\* insertion order of the dicts: any order here) and marked done.
RECURSIVE StaticOrder_GroupsReversed(_, _, _, _)
StaticOrder_GroupsReversed(g, np, ready, acc) ==
    IF ready = {} THEN {acc}
    ELSE LET group == GetReady(ready)
             np2   == DoneAll(np, g, group)
         IN UNION { StaticOrder_GroupsReversed(g, np2, NewlyReady(np, np2),
                                               q \o acc) :
                    q \in Perms(group) }

RECURSIVE StaticOrder(_, _, _, _)
StaticOrder(g, np, ready, acc) ==
    IF ready = {} THEN {acc}
    ELSE LET group == GetReady(ready)
             np2   == DoneAll(np, g, group)
         IN UNION { StaticOrder(g, np2, NewlyReady(np, np2), acc \o q) :
                    q \in Perms(group) }

\* scheduler.py 164-174.
get_task_order ==
    /\ sched_pc \in {"returned", "raised"}
    /\ order_result = NotCalled
    /\ LET tasks == DOMAIN config_tasks
           g == BuildGraph(config_tasks, tasks)
       IN IF FindCycle(g)
          THEN order_result' = [ called |-> TRUE, raised |-> TRUE ]
          ELSE \E o \in StaticOrder(g, [ n \in tasks |-> Cardinality(g[n]) ],
                                    { n \in tasks : g[n] = {} }, << >>) :
                   order_result' = [ called |-> TRUE, raised |-> FALSE,
                                     order |-> o ]
    /\ UNCHANGED << schedVars, prev_result, config_layers, layers_result,
                    hookVars, verifyVars, gitVars, wtVars, runVars, raceVars >>

OrderNext ==
    \/ ScheduleTasks(NoFilter)
    \/ ScheduleLoop
    \/ ScheduleReturn
    \/ get_task_order

OrderSpec == SchedInit /\ [][OrderNext]_vars

(***************************************************************************)
(* schedule_layers: the layers of the configuration in batches.            *)
(***************************************************************************)
\* Layer names a configuration may use.
ConfigLayerNames == {"L1", "L2", "L3", "L4"}

\* Largest number of depends_on entries of the layers of a configuration.
MaxLayerEdges == 4

\* Every layer configuration: a dict of layers, each with a depends_on list
\* over the layer names (names that are no key are not configured).
LayerConfigSpace ==
    UNION { [ D -> SUBSET ConfigLayerNames ] : D \in SUBSET ConfigLayerNames }

\* Line 139: f"layer:{name}"
PseudoTaskName(name) == << "layer:", name >>

\* Lines 131-156: the batches of pseudo-tasks.
RECURSIVE LayerBatches_OnePerBatch(_, _, _, _)
LayerBatches_OnePerBatch(g, np, ready, acc) ==
    IF ready = {} THEN acc
    ELSE LET group == GetReady_OnlyOne(ready)
             np2   == DoneAll(np, g, group)
         IN LayerBatches_OnePerBatch(g, np2,
                (ready \ group) \cup NewlyReady(np, np2),
                Append(acc, { PseudoTaskName(n) : n \in group }))

RECURSIVE LayerBatches(_, _, _, _)
LayerBatches(g, np, ready, acc) ==
    IF ready = {} THEN acc
    ELSE LET group == GetReady(ready)
             np2   == DoneAll(np, g, group)
         IN LayerBatches(g, np2, (ready \ group) \cup NewlyReady(np, np2),
                         Append(acc, { PseudoTaskName(n) : n \in group }))

RECURSIVE MaxCard(_)
MaxCard(q) ==
    IF q = << >> THEN 0 ELSE Max(Cardinality(Head(q)), MaxCard(Tail(q)))

\* scheduler.py 111-162.
schedule_layers ==
    /\ layers_result = NotCalled
    /\ LET layers == DOMAIN config_layers
           g == [ name \in layers |-> { d \in config_layers[name] : d \in layers } ]
       IN IF FindCycle(g)
          THEN layers_result' = [ called |-> TRUE, raised |-> TRUE ]
          ELSE LET bs == LayerBatches(g, [ n \in layers |-> Cardinality(g[n]) ],
                                      { n \in layers : g[n] = {} }, << >>)
               IN layers_result' =
                      [ called |-> TRUE, raised |-> FALSE, batches |-> bs,
                        total_tasks |-> Cardinality(layers),
                        max_parallelism |-> MaxCard(bs) ]
    /\ UNCHANGED << schedVars, prev_result, order_result, config_layers,
                    hookVars, verifyVars, gitVars, wtVars, runVars, raceVars >>

LayerInit ==
    /\ config_layers \in { c \in LayerConfigSpace :
                              SumCard(c, DOMAIN c) <= MaxLayerEdges }
    /\ SchedIdle
    /\ HookIdle
    /\ VerifyIdle
    /\ GitIdle
    /\ WtIdle
    /\ RunIdle
    /\ RaceIdle

LayerNext == schedule_layers

LayerSpec == LayerInit /\ [][LayerNext]_vars

(***************************************************************************)
(* SwissCheeseOrchestrator.run_verification (orchestrator/core.py): the    *)
(* schedule of all tasks, then one batch after the other.                  *)
(***************************************************************************)
\* What _run_task returns for a task, or FAILED when it raised.
RunStatuses == {"passed", "failed"}

\* Lines 180-186, 226-236: the next batch of the schedule.  In dry-run mode
\* no task is started and every task of the batch is Skipped; otherwise the
\* coroutines of all its tasks are started.
RunBatch ==
    /\ verify_pc = "schedule"
    /\ sched_pc = "returned"
    /\ batch_index < Len(batches)
    /\ LET batch == batches[batch_index + 1]
       IN IF dry_run
          THEN /\ results' = [ n \in DOMAIN results \cup batch |->
                                 IF n \in batch THEN "skipped" ELSE results[n] ]
               /\ batch_index' = batch_index + 1
               /\ UNCHANGED << running, verify_pc >>
          ELSE /\ running' = batch
               /\ verify_pc' = "gather"
               /\ UNCHANGED << results, batch_index >>
    /\ UNCHANGED << dry_run, schedVars, notVerifyVars >>

\* Lines 239-254, 189-209: asyncio.gather returns; one TaskResult per task,
\* failures are logged and the loop goes on to the next batch.
GatherBatch ==
    /\ verify_pc = "gather"
    /\ \E r \in [ running -> RunStatuses ] :
           results' = [ n \in DOMAIN results \cup running |->
                          IF n \in running THEN r[n] ELSE results[n] ]
    /\ running' = {}
    /\ batch_index' = batch_index + 1
    /\ verify_pc' = "schedule"
    /\ UNCHANGED << dry_run, schedVars, notVerifyVars >>

\* Lines 211-224: every batch has been run, the report is finalised.
FinalizeReport ==
    /\ verify_pc = "schedule"
    /\ sched_pc = "returned"
    /\ batch_index = Len(batches)
    /\ verify_pc' = "report"
    /\ UNCHANGED << dry_run, batch_index, running, results, schedVars,
                    notVerifyVars >>

\* Line 175: schedule_tasks raised CycleError, run_verification raises it.
VerifyRaise ==
    /\ verify_pc = "schedule"
    /\ sched_pc = "raised"
    /\ verify_pc' = "raised"
    /\ UNCHANGED << dry_run, batch_index, running, results, schedVars,
                    notVerifyVars >>

VerifyInit ==
    /\ config_tasks \in { c \in ConfigSpace : SumCard(c, DOMAIN c) <= MaxEdges }
    /\ task_filter = NoFilter
    /\ tasks_to_schedule = {}
    /\ graph = << >>
    /\ npredecessors = << >>
    /\ ready_nodes = {}
    /\ npassedout = 0
    /\ nfinished = 0
    /\ batches = << >>
    /\ total_tasks = 0
    /\ max_parallelism = 0
    /\ sched_pc = "idle"
    /\ QueryIdle
    /\ config_layers = << >>
    /\ HookIdle
    /\ GitIdle
    /\ WtIdle
    /\ RunIdle
    /\ RaceIdle
    /\ dry_run \in BOOLEAN
    /\ verify_pc = "schedule"
    /\ batch_index = 0
    /\ running = {}
    /\ results = << >>

VerifyNext ==
    \/ ScheduleTasks(NoFilter)
    \/ ScheduleLoop
    \/ ScheduleReturn
    \/ RunBatch
    \/ GatherBatch
    \/ FinalizeReport
    \/ VerifyRaise

VerifySpec == VerifyInit /\ [][VerifyNext]_vars

(***************************************************************************)
(* The hook orchestrator: Stop and SubagentStop events in any order.       *)
(***************************************************************************)
Init ==
    /\ design \in Designs
    /\ status_file = NoStatus
    /\ status = NoStatus
    /\ outcome = [ event |-> "none", result |-> "none" ]
    /\ gate_call = NoGate
    /\ dispatched_now = {}
    /\ reinitialized = FALSE
    /\ SchedIdle
    /\ config_layers = << >>
    /\ VerifyIdle
    /\ GitIdle
    /\ WtIdle
    /\ RunIdle
    /\ RaceIdle

Next ==
    \/ handle_stop_event
    \/ \E task_name \in SeqToSet(TaskOrder) \cup {"none"} :
           handle_subagent_stop(task_name)

Spec == Init /\ [][Next]_vars

(***************************************************************************)
(* The hook orchestrator in a session that keeps going: Stop events keep   *)
(* arriving, and the dispatched subagents finish.                          *)
(***************************************************************************)
\* A Stop event that finds every dispatched subagent finished.
StopAllFinished ==
    /\ handle_stop_event
    /\ outcome'.result # "waiting_subagents"

FairSpec == Init /\ [][Next]_vars /\ WF_vars(StopAllFinished)

(***************************************************************************)
(* The hook orchestrator while the design document is being edited.        *)
(***************************************************************************)
\* The MD5 digests the design document takes.
DocHashes == {0, 1}

\* The user saves the design document with other content (content that is
\* not modelled, such as a description): compute_file_hash changes.
EditDesign ==
    /\ \E h \in DocHashes \ {design.hash} :
           design' = [ design EXCEPT !.hash = h ]
    /\ UNCHANGED << status_file, status, outcome, gate_call, dispatched_now,
                    reinitialized, notHookVars, raceVars >>

EditNext ==
    \/ Next
    \/ EditDesign

\* The runs with edits start from the designs of two parallel agents that
\* allow one or two gate attempts per task.
EditInit ==
    /\ Init
    /\ design.max_parallel = 2
    /\ design.max_iterations \in {1, 2}

EditSpec == EditInit /\ [][EditNext]_vars

(***************************************************************************)
(* Git: the repository with its remote, and one merge pass of either       *)
(* implementation: WorktreeManager.linear_rebase_all (worktree/manager.py) *)
(* and rebase_layer_tasks (hooks/orchestrate.py).                          *)
(***************************************************************************)
WorktreeNames == {"w1", "w2", "w3"}

\* Longest worktree_order of a pass.
MaxOrderLen == 2

\* A commit, named after the change it makes; a merge commit, named after
\* the workspace whose branch it merges.
Commit(id) == [ id |-> id, merge |-> FALSE ]

MergeCommit(id) == [ id |-> id, merge |-> TRUE ]

\* Changes that can touch the same lines: those of the workspaces and one
\* pushed to the remote by somebody else.
ConflictPairs ==
    { {c, d} : c, d \in WorktreeNames \cup {"upstream"} } \ { {c} : c \in WorktreeNames \cup {"upstream"} }

\* History a is an ancestor of (or equal to) history b.
IsPrefix(a, b) == Len(a) <= Len(b) /\ SubSeq(b, 1, Len(a)) = a

\* The commits of b that base lacks.
Own(b, base) == SelectSeq(b, LAMBDA c : c \notin SeqToSet(base))

Ids(h) == { h[i].id : i \in 1..Len(h) }

\* Replaying or merging b on base stops with a conflict.
Conflicting(b, base) ==
    \E c \in Ids(Own(b, base)), d \in Ids(Own(base, b)) : {c, d} \in conflicts

\* git rebase <base>: the commits of the branch that base lacks, replayed
\* on base.
GitRebase(b, base) == base \o Own(b, base)

\* git merge --ff-only <branch> succeeds when trunk is an ancestor of the
\* branch (trunk moves to it) or the branch is already merged.
CanFastForward(t, b) == IsPrefix(t, b) \/ IsPrefix(b, t)

FastForward(t, b) == IF IsPrefix(t, b) THEN b ELSE t

\* git merge <branch> -m ... on diverged histories: a merge commit.
GitMerge(t, b, name) == t \o Own(b, t) \o << MergeCommit(name) >>

\* All sequences over S of length at most k.
SeqsUpTo(S, k) == UNION { [ 1..n -> S ] : n \in 0..k }

\* One more workspace has been dealt with.
PassRecord_BreakOnFailure(name, ok, what, t2, b1, b2, reg2, dirs2) ==
    /\ pass_results' = Append(pass_results, << name, ok >>)
    /\ pass_log' = Append(pass_log,
           [ name |-> name, ok |-> ok, outcome |-> what,
             trunk_before |-> trunk, trunk_after |-> t2,
             branch_before |-> b1, branch_after |-> b2,
             onto |-> tracking',
             registered_after |-> name \in reg2,
             dir_after |-> name \in dirs2 ])
    /\ trunk' = t2
    /\ registered' = reg2
    /\ wt_dirs' = dirs2
    /\ pass_i' = IF ok THEN pass_i + 1 ELSE Len(worktree_order) + 1
    /\ pass_pc' = "rebase"

PassRecord(name, ok, what, t2, b1, b2, reg2, dirs2) ==
    /\ pass_results' = Append(pass_results, << name, ok >>)
    /\ pass_log' = Append(pass_log,
           [ name |-> name, ok |-> ok, outcome |-> what,
             trunk_before |-> trunk, trunk_after |-> t2,
             branch_before |-> b1, branch_after |-> b2,
             onto |-> tracking',
             registered_after |-> name \in reg2,
             dir_after |-> name \in dirs2 ])
    /\ trunk' = t2
    /\ registered' = reg2
    /\ wt_dirs' = dirs2
    /\ pass_i' = pass_i + 1
    /\ pass_pc' = "rebase"

\* Somebody else pushes a commit to the remote's main.
UpstreamPush ==
    /\ has_origin
    /\ pass_pc \in {"rebase", "reverify", "merge"}
    /\ Commit("upstream") \notin SeqToSet(origin_main)
    /\ origin_main' = Append(origin_main, Commit("upstream"))
    /\ UNCHANGED << impl, has_origin, conflicts, tracking, trunk, branches,
                    registered, wt_dirs, worktree_order, reverify_given,
                    pass_i, pass_pc, pass_results, pass_log, reverify_calls,
                    notGitVars >>

\* git rebase --abort after a failed rebase: the branch is as it was.
AbortRebase_KeepsReplayed(b, base) == GitRebase(b, base)

AbortRebase(b, base) == b

\* The workspaces a pass leaves registered after it merged name: the
\* manager keeps them, the hook clears the task's worktree_path.
AfterMerge(S, name) == IF impl = "hook" THEN S \ {name} ELSE S

\* manager.py 229-239 and rebase_worktree 162-181; orchestrate.py 186-213:
\* fetch main from origin and rebase the branch of the next workspace onto
\* origin/main.
RebaseStep ==
    /\ pass_pc = "rebase"
    /\ pass_i <= Len(worktree_order)
    /\ LET name == worktree_order[pass_i]
           fetched == IF has_origin THEN origin_main ELSE tracking
       IN IF name \notin registered \/ (impl = "hook" /\ name \notin wt_dirs)
          THEN \* manager: unknown name, (name, False).  hook: no worktree
               \* to rebase, success, worktree_path cleared.
               /\ UNCHANGED << tracking, branches >>
               /\ PassRecord(name, impl = "hook", "no_worktree", trunk,
                             << >>, << >>, AfterMerge(registered, name),
                             wt_dirs)
          ELSE IF impl = "hook" /\ ~has_origin
          THEN \* git fetch (check=True) raises CalledProcessError
               /\ UNCHANGED << tracking, branches >>
               /\ PassRecord(name, FALSE, "git_error", trunk,
                             branches[name], branches[name], registered,
                             wt_dirs)
          ELSE /\ tracking' = fetched
               /\ IF fetched = << >> \/ Conflicting(branches[name], fetched)
                  THEN /\ branches' = [ branches EXCEPT
                                          ![name] = AbortRebase(@, fetched) ]
                       /\ PassRecord(name, FALSE,
                                     IF fetched = << >> THEN "rebase_failed"
                                     ELSE "rebase_conflict",
                                     trunk, branches[name], branches'[name],
                                     registered, wt_dirs)
                  ELSE /\ branches' = [ branches EXCEPT
                                          ![name] = GitRebase(@, fetched) ]
                       /\ pass_pc' = IF impl = "manager" /\ reverify_given
                                     THEN "reverify" ELSE "merge"
                       /\ UNCHANGED << trunk, registered, wt_dirs, pass_i,
                                       pass_results, pass_log >>
    /\ UNCHANGED << impl, has_origin, conflicts, origin_main, worktree_order,
                    reverify_given, reverify_calls, notGitVars >>

\* manager.py 241-246: the reverify callback.
ReverifyStep_IgnoresResult ==
    /\ pass_pc = "reverify"
    /\ UNCHANGED << tracking, branches >>
    /\ \E verify_passed \in BOOLEAN :
           reverify_calls' = Append(reverify_calls,
               [ name |-> worktree_order[pass_i], at |-> pass_i,
                 passed |-> verify_passed ])
    /\ pass_pc' = "merge"
    /\ UNCHANGED << trunk, registered, wt_dirs, pass_i, pass_results, pass_log >>
    /\ UNCHANGED << impl, has_origin, conflicts, origin_main, worktree_order,
                    reverify_given, notGitVars >>

ReverifyStep ==
    /\ pass_pc = "reverify"
    /\ UNCHANGED << tracking, branches >>
    /\ LET name == worktree_order[pass_i]
       IN \E verify_passed \in BOOLEAN :
            /\ reverify_calls' = Append(reverify_calls,
                   [ name |-> name, at |-> pass_i, passed |-> verify_passed ])
            /\ IF verify_passed
               THEN /\ pass_pc' = "merge"
                    /\ UNCHANGED << trunk, registered, wt_dirs, pass_i,
                                    pass_results, pass_log >>
               ELSE PassRecord(name, FALSE, "reverify_failed", trunk,
                               branches[name], branches[name], registered,
                               wt_dirs)
    /\ UNCHANGED << impl, has_origin, conflicts, origin_main, worktree_order,
                    reverify_given, notGitVars >>

\* manager.py 248-250 with merge_worktree_to_main 197-205: checkout main
\* (WorktreeError when it fails), merge --ff-only.  orchestrate.py 217-244:
\* checkout main (a failure is caught and reported), merge --ff-only, then a
\* regular merge when the fast-forward is refused, then git worktree remove,
\* whose exit status is not looked at.
MergeStep ==
    /\ pass_pc = "merge"
    /\ UNCHANGED << tracking, branches, reverify_calls >>
    /\ LET name == worktree_order[pass_i]
           b == branches[name]
       IN \E checkout_ok \in BOOLEAN,
             removed \in IF impl = "hook" THEN BOOLEAN ELSE {FALSE} :
            LET dirs2 == IF removed THEN wt_dirs \ {name} ELSE wt_dirs
            IN IF ~checkout_ok
               THEN IF impl = "manager"
                    THEN /\ pass_pc' = "raised"
                         /\ UNCHANGED << trunk, registered, wt_dirs, pass_i,
                                         pass_results, pass_log >>
                    ELSE PassRecord(name, FALSE, "git_error", trunk, b, b,
                                    registered, wt_dirs)
               ELSE IF CanFastForward(trunk, b)
               THEN PassRecord(name, TRUE, "fast_forward",
                               FastForward(trunk, b), b, b,
                               AfterMerge(registered, name), dirs2)
               ELSE IF impl = "hook" /\ ~Conflicting(b, trunk)
               THEN PassRecord(name, TRUE, "merge_commit",
                               GitMerge(trunk, b, name), b, b,
                               AfterMerge(registered, name), dirs2)
               ELSE PassRecord(name, FALSE, "merge_failed", trunk, b, b,
                               registered, wt_dirs)
    /\ UNCHANGED << impl, has_origin, conflicts, origin_main, worktree_order,
                    reverify_given, notGitVars >>

\* manager.py 252 / orchestrate.py 268: every workspace has been dealt with.
PassReturn ==
    /\ pass_pc = "rebase"
    /\ pass_i > Len(worktree_order)
    /\ pass_pc' = "returned"
    /\ UNCHANGED << impl, has_origin, conflicts, origin_main, tracking, trunk,
                    branches, registered, wt_dirs, worktree_order,
                    reverify_given, pass_i, pass_results, pass_log,
                    reverify_calls, notGitVars >>

\* A clone of the remote (or a repository without a remote) with main
\* checked out, and workspaces created from main, each with one commit of
\* its subagent on its branch.
GitInit ==
    /\ impl \in {"manager", "hook"}
    /\ has_origin \in BOOLEAN
    /\ conflicts \in SUBSET ConflictPairs
    /\ origin_main = IF has_origin THEN << Commit("base") >> ELSE << >>
    /\ tracking = origin_main
    /\ trunk = << Commit("base") >>
    /\ registered \in SUBSET WorktreeNames
    /\ wt_dirs = registered
    /\ branches = [ n \in registered |-> << Commit("base"), Commit(n) >> ]
    /\ worktree_order \in SeqsUpTo(WorktreeNames, MaxOrderLen)
    /\ reverify_given \in IF impl = "manager" THEN BOOLEAN ELSE {FALSE}
    /\ pass_i = 1
    /\ pass_pc = "rebase"
    /\ pass_results = << >>
    /\ pass_log = << >>
    /\ reverify_calls = << >>
    /\ SchedIdle
    /\ config_layers = << >>
    /\ HookIdle
    /\ VerifyIdle
    /\ WtIdle
    /\ RunIdle
    /\ RaceIdle

GitNext ==
    \/ RebaseStep
    \/ ReverifyStep
    \/ MergeStep
    \/ PassReturn
    \/ UpstreamPush

GitSpec == GitInit /\ [][GitNext]_vars

(***************************************************************************)
(* Creating and removing workspaces: WorktreeManager.create_worktree,      *)
(* remove_worktree and cleanup_all (worktree/manager.py) and               *)
(* create_worktree of hooks/orchestrate.py.  Names are sequences of        *)
(* characters, a directory is named by its path below the base path.       *)
(***************************************************************************)
\* The task names the callers pass.
WtTaskNames ==
    { << "t", "1" >>, << "T", "1" >>, << "a", "/", "b" >>,
      << "a", "-", "b" >>, << "a", " ", "b" >> }

\* Seconds that pass while workspaces are created.
MaxClock == 1

\* str.replace(old, new) for one-character old and new.
StrReplace(str, old, new) ==
    [ i \in DOMAIN str |-> IF str[i] = old THEN new ELSE str[i] ]

\* str.lower()
StrLower(str) ==
    [ i \in DOMAIN str |->
        CASE str[i] = "A" -> "a"
          [] str[i] = "T" -> "t"
          [] OTHER -> str[i] ]

\* manager.py 85
SafeName(task_name) ==
    StrLower(StrReplace(StrReplace(task_name, "/", "-"), " ", "-"))

\* orchestrate.py 126
HookDirName(task_name) == StrReplace(task_name, "/", "-")

\* manager.py 86-88: f"{branch_prefix}/{safe_name}-{timestamp}"
ManagerBranch(safe_name, timestamp) ==
    [ prefix |-> "swiss-cheese", name |-> safe_name, timestamp |-> timestamp ]

\* orchestrate.py 321: f"swiss-cheese/{task_name}"
HookBranch(task_name) ==
    [ prefix |-> "swiss-cheese", name |-> task_name, timestamp |-> -1 ]

Restrict(f, D) == [ x \in D |-> f[x] ]

Extend(f, k, v) == [ x \in DOMAIN f \cup {k} |-> IF x = k THEN v ELSE f[x] ]

\* The registry, the directories and the branches a call works on, with the
\* git commands that failed so far.
\* attempted: the names remove_worktree was called for; raising: those of
\* them whose call raised.
WtState == [ reg |-> mgr_worktrees, disk |-> wt_disk, br |-> git_branches,
             failed |-> {}, attempted |-> {}, raising |-> {} ]

\* manager.py 116-134, WorktreeManager.remove_worktree: git worktree remove
\* --force (refused for a locked worktree) and git branch -D (refused for a
\* branch that is checked out), neither exit status looked at, then the
\* entry is popped.
RemoveWorktree(st, name) ==
    LET known  == name \in DOMAIN st.reg
        exists == name \in DOMAIN st.disk
        rm_ok  == exists /\ name \notin locked
        disk2  == IF rm_ok THEN Restrict(st.disk, DOMAIN st.disk \ {name})
                  ELSE st.disk
        del    == exists /\ known
        del_ok == /\ del
                  /\ st.reg[name].branch \in st.br
                  /\ \A q \in DOMAIN disk2 :
                         disk2[q].branch # st.reg[name].branch
    IN [ reg |-> Restrict(st.reg, DOMAIN st.reg \ {name}),
         disk |-> disk2,
         br |-> IF del_ok THEN st.br \ {st.reg[name].branch} ELSE st.br,
         failed |-> st.failed
                    \cup (IF exists /\ ~rm_ok THEN {"worktree remove"} ELSE {})
                    \cup (IF del /\ ~del_ok THEN {"branch -D"} ELSE {}),
         attempted |-> st.attempted \cup {name},
         raising |-> st.raising ]

\* manager.py 116-134 and 273-283: the path exists and the git process of
\* the first command cannot be started (create_subprocess_exec raises
\* OSError); remove_worktree raises with nothing removed and the entry
\* still registered.
RemoveWorktreeRaises(st, name) ==
    [ st EXCEPT !.attempted = @ \cup {name}, !.raising = @ \cup {name} ]

\* The state after a call, and what the call reports.
WtReturn(op, arg, st, raised, returned) ==
    /\ mgr_worktrees' = st.reg
    /\ wt_disk' = st.disk
    /\ git_branches' = st.br
    /\ locked' = locked \cap DOMAIN st.disk
    /\ wt_last' = [ op |-> op, arg |-> arg, failed |-> st.failed,
                    raised |-> raised, returned |-> returned,
                    attempted |-> st.attempted, raising |-> st.raising ]
    /\ UNCHANGED << wt_impl, clock, notWtVars >>

\* manager.py 75-114, WorktreeManager.create_worktree.
create_worktree(task_name) ==
    /\ wt_impl = "manager"
    /\ LET safe_name   == SafeName(task_name)
           branch_name == ManagerBranch(safe_name, clock)
           st1 == IF safe_name \in DOMAIN wt_disk
                  THEN RemoveWorktree(WtState, safe_name)
                  ELSE WtState
           add_ok == safe_name \notin DOMAIN st1.disk /\ branch_name \notin st1.br
           info == [ name |-> safe_name, path |-> safe_name,
                     branch |-> branch_name, task_name |-> task_name ]
       IN IF add_ok
          THEN WtReturn("create_worktree", task_name,
                        [ reg |-> Extend(st1.reg, safe_name, info),
                          disk |-> Extend(st1.disk, safe_name,
                                     [ branch |-> branch_name,
                                       task_name |-> task_name ]),
                          br |-> st1.br \cup {branch_name},
                          failed |-> st1.failed,
                          attempted |-> st1.attempted,
                          raising |-> st1.raising ],
                        FALSE, info)
          ELSE WtReturn("create_worktree", task_name,
                        [ st1 EXCEPT !.failed = @ \cup {"worktree add"} ],
                        TRUE, << >>)

\* manager.py 116-134 called by the user of the manager.
remove_worktree(name) ==
    /\ wt_impl = "manager"
    /\ \/ WtReturn("remove_worktree", name, RemoveWorktree(WtState, name),
                   FALSE, << >>)
       \/ /\ name \in DOMAIN wt_disk
          /\ WtReturn("remove_worktree", name,
                      RemoveWorktreeRaises(WtState, name), TRUE, << >>)

\* manager.py 256-260: the loop over list(self._worktrees.keys()); a call
\* that raises is passed over.  raising: the names whose call raises.
RECURSIVE RemoveAll_StopsAtRaise(_, _, _)
RemoveAll_StopsAtRaise(st, names, raising) ==
    IF names = {} THEN st
    ELSE LET name == CHOOSE n \in names : TRUE
         IN IF name \in raising /\ name \in DOMAIN st.disk
            THEN RemoveWorktreeRaises(st, name)
            ELSE RemoveAll_StopsAtRaise(RemoveWorktree(st, name),
                                        names \ {name}, raising)

RECURSIVE RemoveAll(_, _, _)
RemoveAll(st, names, raising) ==
    IF names = {} THEN st
    ELSE LET name == CHOOSE n \in names : TRUE
         IN IF name \in raising /\ name \in DOMAIN st.disk
            THEN RemoveAll(RemoveWorktreeRaises(st, name),
                           names \ {name}, raising)
            ELSE RemoveAll(RemoveWorktree(st, name), names \ {name}, raising)

\* manager.py 254-264, WorktreeManager.cleanup_all.
cleanup_all ==
    /\ wt_impl = "manager"
    /\ \E raising \in SUBSET DOMAIN mgr_worktrees :
         WtReturn("cleanup_all", << >>,
                  RemoveAll(WtState, DOMAIN mgr_worktrees, raising),
                  FALSE, << >>)

\* orchestrate.py 124-154, create_worktree(task_name, branch) as
\* handle_stop_event calls it, with the branch of init_status_from_design.
hook_create_worktree(task_name) ==
    /\ wt_impl = "hook"
    /\ LET worktree_path == HookDirName(task_name)
           branch == HookBranch(task_name)
           info == [ name |-> worktree_path, path |-> worktree_path,
                     branch |-> branch, task_name |-> task_name ]
           add_ok == \A q \in DOMAIN wt_disk : wt_disk[q].branch # branch
       IN IF worktree_path \in DOMAIN wt_disk
          THEN WtReturn("create_worktree", task_name, WtState, FALSE, info)
          ELSE IF add_ok
          THEN WtReturn("create_worktree", task_name,
                        [ WtState EXCEPT
                            !.disk = Extend(@, worktree_path,
                                       [ branch |-> branch,
                                         task_name |-> task_name ]),
                            !.br = @ \cup {branch} ],
                        FALSE, info)
          ELSE WtReturn("create_worktree", task_name,
                        [ WtState EXCEPT
                            !.br = @ \cup {branch},
                            !.failed = {"worktree add"} ],
                        FALSE, << >>)

\* Somebody runs git worktree lock on a workspace.
LockWorktree ==
    /\ \E q \in DOMAIN wt_disk \ locked : locked' = locked \cup {q}
    /\ UNCHANGED << wt_impl, mgr_worktrees, wt_disk, git_branches, clock,
                    wt_last, notWtVars >>

\* A second passes.
Tick ==
    /\ clock < MaxClock
    /\ clock' = clock + 1
    /\ UNCHANGED << wt_impl, mgr_worktrees, wt_disk, git_branches, locked,
                    wt_last, notWtVars >>

WtInit ==
    /\ wt_impl \in {"manager", "hook"}
    /\ mgr_worktrees = << >>
    /\ wt_disk = << >>
    /\ git_branches = {}
    /\ locked = {}
    /\ clock = 0
    /\ wt_last = NoCall
    /\ SchedIdle
    /\ config_layers = << >>
    /\ HookIdle
    /\ VerifyIdle
    /\ GitIdle
    /\ RunIdle
    /\ RaceIdle

WtNext ==
    \/ \E task_name \in WtTaskNames : create_worktree(task_name)
    \/ \E task_name \in WtTaskNames : hook_create_worktree(task_name)
    \/ \E task_name \in WtTaskNames : remove_worktree(SafeName(task_name))
    \/ cleanup_all
    \/ LockWorktree
    \/ Tick

WtSpec == WtInit /\ [][WtNext]_vars

(***************************************************************************)
(* run_verification batch by batch: the tasks of a batch run concurrently  *)
(* and finish one at a time; the report is built from what _run_batch      *)
(* returns.                                                                *)
(***************************************************************************)
\* The task names, in the order the schedule lists them.
RunTaskNames == << "a", "b", "c" >>

RunLayers == {"l1", "l2"}

\* How a _run_task coroutine can end: it returns a TaskResult with status
\* Passed or Failed (lines 332-342), it raises an Exception (raised outside
\* its try block), or it raises asyncio.CancelledError, which is a
\* BaseException and no Exception.
TaskOutcomes == {"passed", "failed", "exception", "cancelled"}

\* The ways of cutting a list of tasks into batches.
RECURSIVE Splits(_)
Splits(q) ==
    IF q = << >> THEN { << >> }
    ELSE UNION { { << SubSeq(q, 1, k) >> \o r :
                     r \in Splits(SubSeq(q, k + 1, Len(q))) }
                 : k \in 1..Len(q) }

\* The schedules of the configurations with up to three tasks.
Schedules == UNION { Splits(SubSeq(RunTaskNames, 1, n)) : n \in 0..Len(RunTaskNames) }

RECURSIVE Flatten(_)
Flatten(qq) == IF qq = << >> THEN << >> ELSE Head(qq) \o Flatten(Tail(qq))

\* TaskResult(task_name=..., status=...)
TaskResult(task_name, st) ==
    [ kind |-> "TaskResult", task_name |-> task_name, status |-> st ]

\* Lines 236-239: the entry of the list asyncio.gather(*coros,
\* return_exceptions=True) returns for the coroutine of task: what the
\* coroutine returned, or the exception object it raised.
GatherResult(task, how) ==
    CASE how = "passed"    -> TaskResult(task, "passed")
      [] how = "failed"    -> TaskResult(task, "failed")
      [] how = "exception" -> [ kind |-> "Exception", task_name |-> "none",
                                status |-> "none" ]
      [] how = "cancelled" -> [ kind |-> "CancelledError", task_name |-> "none",
                                status |-> "none" ]

\* Lines 243-252: isinstance(result, Exception) makes a Failed TaskResult
\* named after batch.tasks[i]; every other entry is appended as it is.
HandleException(task, result) ==
    IF result.kind = "Exception"
    THEN TaskResult(task, "failed")
    ELSE result

\* Lines 195-209: one result enters the report.
AddResult(rep, result) ==
    LET layer_name == task_layer[result.task_name]
        lr == IF layer_name \in DOMAIN rep.layer_results
              THEN rep.layer_results[layer_name]
              ELSE [ status |-> "pending", gate_passed |-> FALSE,
                     task_results |-> << >> ]
        lr2 == [ lr EXCEPT !.task_results = Append(@, result) ]
    IN [ rep EXCEPT
           !.layer_results = [ l \in DOMAIN rep.layer_results \cup {layer_name} |->
                                 IF l = layer_name THEN lr2
                                 ELSE rep.layer_results[l] ],
           !.passed_tasks = IF result.status = "passed" THEN @ + 1 ELSE @,
           !.failed_tasks = IF result.status = "failed" THEN @ + 1 ELSE @ ]

RECURSIVE AddResults(_, _)
AddResults(rep, rs) ==
    IF rs = << >> THEN rep
    ELSE AddResults(AddResult(rep, Head(rs)), Tail(rs))

\* Lines 211-222: overall_status from failed_tasks, each layer from its own
\* task results.
OverallStatus(rep, layers) ==
    IF rep.failed_tasks = 0 THEN "passed" ELSE "failed"

Finalize(rep) ==
    LET layers == [ l \in DOMAIN rep.layer_results |->
                      LET lr == rep.layer_results[l]
                          all_passed == \A k \in 1..Len(lr.task_results) :
                                            lr.task_results[k].status = "passed"
                      IN [ lr EXCEPT
                             !.status = IF all_passed THEN "passed" ELSE "failed",
                             !.gate_passed = all_passed ] ]
    IN [ rep EXCEPT !.overall_status = OverallStatus(rep, layers),
                    !.layer_results = layers ]

\* Lines 183-186, 226-239: the next batch.  In dry-run mode _run_batch
\* returns a Skipped result per task at once; otherwise it creates the
\* coroutines and awaits asyncio.gather.
StartBatch ==
    /\ run_pc = "loop"
    /\ run_i < Len(schedule)
    /\ LET batch == schedule[run_i + 1]
       IN IF dry_run
          THEN /\ batch_results' = [ i \in 1..Len(batch) |->
                                       TaskResult(batch[i], "skipped") ]
               /\ run_pc' = "batch_done"
               /\ UNCHANGED << coros, finished >>
          ELSE /\ coros' = [ i \in 1..Len(batch) |-> "running" ]
               /\ finished' = << >>
               /\ run_pc' = "gather"
               /\ UNCHANGED batch_results
    /\ UNCHANGED << schedule, task_layer, run_i, report, notRunVars >>

\* Lines 256-342: one of the running tasks of the batch finishes.
TaskFinishes ==
    /\ run_pc = "gather"
    /\ \E i \in DOMAIN coros, how \in TaskOutcomes :
         /\ coros[i] = "running"
         /\ coros' = [ coros EXCEPT ![i] = how ]
         /\ finished' = Append(finished, i)
    /\ UNCHANGED << schedule, task_layer, run_i, batch_results, report, run_pc,
                    notRunVars >>

\* Lines 239-254: every task has finished, gather returns and _run_batch
\* builds its list.
GatherReturns ==
    /\ run_pc = "gather"
    /\ \A i \in DOMAIN coros : coros[i] # "running"
    /\ LET batch == schedule[run_i + 1]
       IN batch_results' = [ i \in 1..Len(batch) |->
                               HandleException(batch[i],
                                               GatherResult(batch[i], coros[i])) ]
    /\ run_pc' = "batch_done"
    /\ UNCHANGED << schedule, task_layer, run_i, coros, finished, report,
                    notRunVars >>

\* Lines 189-209: the results of the batch enter the report.  Reading
\* r.status of an entry that is no TaskResult raises AttributeError.
UpdateReport ==
    /\ run_pc = "batch_done"
    /\ IF \E i \in DOMAIN batch_results : batch_results[i].kind # "TaskResult"
       THEN /\ run_pc' = "raised"
            /\ UNCHANGED << run_i, report >>
       ELSE /\ report' = AddResults(report, batch_results)
            /\ run_i' = run_i + 1
            /\ run_pc' = "loop"
    /\ UNCHANGED << schedule, task_layer, coros, finished, batch_results,
                    notRunVars >>

\* Lines 211-224: every batch has been run; the report is returned.
ReturnReport ==
    /\ run_pc = "loop"
    /\ run_i = Len(schedule)
    /\ report' = Finalize(report)
    /\ run_pc' = "returned"
    /\ UNCHANGED << schedule, task_layer, run_i, coros, finished, batch_results,
                    notRunVars >>

\* initialize(): the report starts with total_tasks = len(config.tasks).
RunInit ==
    /\ schedule \in Schedules
    /\ task_layer \in [ SeqToSet(Flatten(schedule)) -> RunLayers ]
    /\ run_i = 0
    /\ coros = << >>
    /\ finished = << >>
    /\ batch_results = << >>
    /\ report = [ overall_status |-> "pending", layer_results |-> << >>,
                  total_tasks |-> Len(Flatten(schedule)),
                  passed_tasks |-> 0, failed_tasks |-> 0 ]
    /\ run_pc = "loop"
    /\ dry_run \in BOOLEAN
    /\ verify_pc = "idle"
    /\ batch_index = 0
    /\ running = {}
    /\ results = << >>
    /\ SchedIdle
    /\ config_layers = << >>
    /\ HookIdle
    /\ GitIdle
    /\ WtIdle
    /\ RaceIdle

RunNext ==
    \/ StartBatch
    \/ TaskFinishes
    \/ GatherReturns
    \/ UpdateReport
    \/ ReturnReport

RunSpec == RunInit /\ [][RunNext]_vars

(***************************************************************************)
(* The hook orchestrator in a session in which every gate passes: make     *)
(* exits with status 0 whenever run_makefile_gate is called.               *)
(***************************************************************************)
GatePasses == gate_call'.ran => gate_call'.passed

PassNext ==
    \/ handle_stop_event /\ GatePasses
    \/ \E task_name \in SeqToSet(TaskOrder) \cup {"none"} :
           handle_subagent_stop(task_name) /\ GatePasses

PassSpec == Init /\ [][PassNext]_vars

(***************************************************************************)
(* The hook orchestrator on design documents whose max_parallel_agents is  *)
(* not positive: validate_design_document does not look at the value.      *)
(***************************************************************************)
LowParallelChoices == {-1, 0}

LowParallelDesigns ==
    { [ d EXCEPT !.max_parallel = p ] : d \in Designs, p \in LowParallelChoices }

LowParallelInit ==
    /\ design \in LowParallelDesigns
    /\ status_file = NoStatus
    /\ status = NoStatus
    /\ outcome = [ event |-> "none", result |-> "none" ]
    /\ gate_call = NoGate
    /\ dispatched_now = {}
    /\ reinitialized = FALSE
    /\ SchedIdle
    /\ config_layers = << >>
    /\ VerifyIdle
    /\ GitIdle
    /\ WtIdle
    /\ RunIdle
    /\ RaceIdle

LowParallelSpec == LowParallelInit /\ [][Next]_vars

(***************************************************************************)
(* Two SubagentStop events handled at the same time.  Each hook event is   *)
(* handled by a process of its own (main); the status file is read at      *)
(* line 660 and written by the save calls, with no lock in between.        *)
(***************************************************************************)
RaceHandlers == {"h1", "h2"}

\* The status file after the first Stop event of a design whose first layer
\* has tasks: the ready tasks are Dispatched, each with its worktree.
DispatchedStatus(d) ==
    LET s == init_status_from_design(d)
        ready_tasks == get_ready_tasks(s)
    IN [ s EXCEPT !.tasks =
           [ n \in DOMAIN s.tasks |->
               IF n \in ready_tasks
               THEN [ s.tasks[n] EXCEPT !.status = "dispatched",
                                        !.worktree_path = TRUE ]
               ELSE s.tasks[n] ] ]

\* Lines 645-663: the handler process h reads the status file.
LoadStatus(h) ==
    /\ handlers[h].pc = "start"
    /\ handlers' = [ handlers EXCEPT ![h].pc = "loaded",
                                     ![h].status = status_file ]
    /\ UNCHANGED << hookVars, notHookVars >>

\* Lines 665-791: the handler process h goes on from the status it read,
\* up to its save and return.
FinishHandler(h) ==
    /\ handlers[h].pc = "loaded"
    /\ SubagentStopFrom(handlers[h].status, handlers[h].task)
    /\ handlers' = [ handlers EXCEPT ![h].pc = "done" ]

\* Two tasks of the first layer have been dispatched in one round, and the
\* SubagentStop events of two of them arrive.
RaceInit ==
    /\ design \in { d \in Designs :
                      Cardinality(get_dispatched_tasks(DispatchedStatus(d))) >= 2 }
    /\ status_file = DispatchedStatus(design)
    /\ status = status_file
    /\ outcome = [ event |-> "Stop", result |-> "dispatch" ]
    /\ gate_call = NoGate
    /\ dispatched_now = get_dispatched_tasks(status_file)
    /\ reinitialized = TRUE
    /\ handlers \in { f \in [ RaceHandlers ->
                               [ pc : {"start"},
                                 task : get_dispatched_tasks(status_file),
                                 status : {NoStatus} ] ] :
                        f["h1"].task # f["h2"].task }
    /\ SchedIdle
    /\ config_layers = << >>
    /\ VerifyIdle
    /\ GitIdle
    /\ WtIdle
    /\ RunIdle

RaceNext ==
    \E h \in RaceHandlers :
        \/ LoadStatus(h)
        \/ FinishHandler(h)

RaceSpec == RaceInit /\ [][RaceNext]_vars

(***************************************************************************)
(* Properties of schedule_tasks.  They are stated over the configuration   *)
(* and the filter, not over the graph the scheduler built.                 *)
(***************************************************************************)
\* The scheduled set: all configured tasks, or the filter names that exist.
SchedSet ==
    IF task_filter.given THEN task_filter.names \cap DOMAIN config_tasks
    ELSE DOMAIN config_tasks

\* depends_on of a scheduled task, restricted to the scheduled set.
DepsIn(n) == config_tasks[n] \cap SchedSet

RECURSIVE DepClosure(_)
DepClosure(S) ==
    LET next == S \cup UNION { DepsIn(m) : m \in S }
    IN IF next = S THEN S ELSE DepClosure(next)

\* Direct and transitive dependencies of n inside the scheduled set.
TransDeps(n) == DepClosure(DepsIn(n))

Cyclic == \E n \in SchedSet : n \in TransDeps(n)

BatchesOf(n) == { i \in 1..Len(batches) : n \in batches[i] }

Earlier(i) == UNION { batches[k] : k \in 1..(i - 1) }

\* C1: in a returned schedule a task lies in a strictly later batch than
\* every scheduled task it depends on, directly or transitively; so no
\* batch holds a task together with one of its dependencies.
C1_DepsInEarlierBatch ==
    sched_pc = "returned" =>
        \A i, j \in 1..Len(batches) :
            \A A \in batches[i], B \in batches[j] :
                A \in TransDeps(B) => i < j

\* C1 witness: a filtered schedule returned in which a task has a
\* dependency that is only transitive, placed two batches earlier.
C1_Witness ==
    /\ sched_pc = "returned"
    /\ task_filter.given
    /\ \E i, j \in 1..Len(batches) :
           \E A \in batches[i], B \in batches[j] :
               A \in TransDeps(B) \ DepsIn(B) /\ i + 1 < j

\* C2: a returned schedule holds every task of the scheduled set in exactly
\* one batch and no other task, has no empty batch (zero tasks give zero
\* batches), and total_tasks is the number of scheduled tasks.
C2_ExactlyOnce ==
    sched_pc = "returned" =>
        /\ \A n \in SchedSet : Cardinality(BatchesOf(n)) = 1
        /\ \A i \in 1..Len(batches) :
               batches[i] # {} /\ batches[i] \subseteq SchedSet
        /\ SchedSet = {} => batches = << >>
        /\ total_tasks = Cardinality(SchedSet)

\* C2 witness: a filter naming an unknown task and leaving a configured
\* task out, scheduled into at least two batches.
C2_Witness ==
    /\ sched_pc = "returned"
    /\ task_filter.given
    /\ task_filter.names \ DOMAIN config_tasks # {}
    /\ DOMAIN config_tasks \ task_filter.names # {}
    /\ Len(batches) >= 2

\* C3: every batch of a returned schedule is maximal: a scheduled task that
\* is in no earlier batch and whose scheduled dependencies all lie in
\* earlier batches is in batch i, never in a later one.
C3_BatchesMaximal ==
    (sched_pc = "returned" /\ ~Cyclic) =>
        \A i \in 1..Len(batches) :
            \A n \in SchedSet :
                (n \notin Earlier(i) /\ DepsIn(n) \subseteq Earlier(i))
                    => n \in batches[i]

\* C3 witness: a second batch of two tasks, one of them with two
\* dependencies.
C3_Witness ==
    /\ sched_pc = "returned"
    /\ Len(batches) >= 2
    /\ Cardinality(batches[2]) >= 2
    /\ \E n \in batches[2] : Cardinality(DepsIn(n)) >= 2

\* C4: when the dependencies restricted to the scheduled set contain a
\* cycle, schedule_tasks raises CycleError: it never enters the batch loop
\* and never returns a schedule.
C4_CycleRaises ==
    (sched_pc # "idle" /\ Cyclic) =>
        (sched_pc = "raised" /\ batches = << >>)

\* C4 witness: CycleError raised for a filtered set with a cycle through
\* several tasks, no task of which depends on itself.
C4_Witness ==
    /\ sched_pc = "raised"
    /\ task_filter.given
    /\ \E n \in SchedSet : n \in TransDeps(n)
    /\ \A n \in SchedSet : n \notin DepsIn(n)

(***************************************************************************)
(* Properties of the hook orchestrator.                                    *)
(***************************************************************************)
TasksOfLayer(tasks, layer) == { n \in DOMAIN tasks : tasks[n].layer = layer }

CompletedIn(tasks, layer) ==
    { n \in TasksOfLayer(tasks, layer) : tasks[n].status = "completed" }

\* C5: handle_stop_event moves a task to Dispatched only when every task
\* named in its depends_on is Passed or Skipped.
C5_DispatchAfterDeps ==
    \A n \in dispatched_now :
        \A dep \in status.tasks[n].depends_on :
            /\ dep \in DOMAIN status.tasks
            /\ status.tasks[dep].status \in {"passed", "skipped"}

\* C5 witness: a task with a dependency is dispatched by a Stop event.
C5_Witness ==
    /\ outcome.event = "Stop"
    /\ \E n \in dispatched_now :
           /\ status.tasks[n].depends_on # {}
           /\ status.tasks[n].status = "dispatched"

\* C6: a layer's gate is invoked only when no task of that layer is
\* Dispatched and at least one task of that layer is Completed.
C6_GateWhenNoneInFlight ==
    gate_call.ran =>
        /\ \A n \in TasksOfLayer(gate_call.pre, gate_call.layer) :
               gate_call.pre[n].status # "dispatched"
        /\ CompletedIn(gate_call.pre, gate_call.layer) # {}

\* C6 witness: handle_subagent_stop runs the gate of a layer of two tasks
\* that were dispatched together, both now Completed.
C6_Witness ==
    /\ gate_call.ran
    /\ outcome.event = "SubagentStop"
    /\ Cardinality(CompletedIn(gate_call.pre, gate_call.layer)) >= 2

\* The effect of a failed gate on the Completed tasks of its layer.
GateFailEffect ==
    (gate_call.ran /\ ~gate_call.passed) =>
        \A n \in DOMAIN gate_call.pre :
            IF n \in CompletedIn(gate_call.pre, gate_call.layer)
            THEN /\ gate_call.post[n].iteration = gate_call.pre[n].iteration + 1
                 /\ gate_call.post[n].status =
                        IF gate_call.post[n].iteration < status.max_iterations
                        THEN "pending" ELSE "failed"
                 /\ status.tasks[n] = gate_call.post[n]
            ELSE gate_call.post[n] = gate_call.pre[n]

\* A task is Failed only with iteration = cap, and no iteration exceeds cap.
RetryBound(s, cap) ==
    s.current_layer # "none" =>
        \A n \in DOMAIN s.tasks :
            /\ s.tasks[n].status = "failed" => s.tasks[n].iteration = cap
            /\ s.tasks[n].iteration <= cap

C9_DependencyGatesPassed ==
    \A n \in dispatched_now :
        \A dep_layer \in LayerDependsOn[status.tasks[n].layer] :
            status.gates[dep_layer] = "passed"

\* C10 as claimed: the run is reported complete only when the gate of every
\* non-optional layer is Passed.
C10_CompleteOnlyIfGatesPassed ==
    outcome.result = "all_complete" =>
        \A l \in LayerNames \ LayerOptional : status.gates[l] = "passed"

\* The edges of the task state machine.
AllowedEdges ==
    { << "pending", "dispatched" >>, << "dispatched", "completed" >>,
      << "completed", "passed" >>, << "completed", "pending" >>,
      << "completed", "failed" >> }

\* From tasks t1 to tasks t2 every task keeps its status or takes one edge.
EdgeOrSame(t1, t2) ==
    /\ DOMAIN t1 = DOMAIN t2
    /\ \A n \in DOMAIN t1 :
           \/ t1[n].status = t2[n].status
           \/ << t1[n].status, t2[n].status >> \in AllowedEdges

\* A handler ran on the status it loaded, without reinitialising it.
HandlerStepNoReinit ==
    /\ design' = design
    /\ ~reinitialized'
    /\ status_file.current_layer # "none"

\* C11: between reinitialisations a task's status changes only along
\* Pending->Dispatched, Dispatched->Completed, Completed->Passed,
\* Completed->Pending and Completed->Failed, so a Passed, Failed or Skipped
\* task never changes status again.  Each assignment of a handler is one
\* hop: the loaded status, the tasks the gate saw, the tasks after the gate
\* result, the status at the return; the file keeps the loaded status or
\* takes the returned one.
C11_StatusEdges ==
    [][ HandlerStepNoReinit =>
          /\ IF gate_call'.ran
             THEN /\ EdgeOrSame(status_file.tasks, gate_call'.pre)
                  /\ EdgeOrSame(gate_call'.pre, gate_call'.post)
                  /\ EdgeOrSame(gate_call'.post, status'.tasks)
             ELSE EdgeOrSame(status_file.tasks, status'.tasks)
          /\ status_file' \in { status_file, status' }
          /\ \A n \in DOMAIN status_file.tasks :
                 status_file.tasks[n].status \in {"passed", "failed", "skipped"}
                     => /\ status'.tasks[n].status = status_file.tasks[n].status
                        /\ status_file'.tasks[n].status
                               = status_file.tasks[n].status ]_vars

\* C11 witness: a failed gate sends a Completed task back to Pending while
\* a Passed task of the run keeps its status.
C11_Witness ==
    /\ ~reinitialized
    /\ gate_call.ran /\ ~gate_call.passed
    /\ \E n \in DOMAIN gate_call.pre :
           /\ gate_call.pre[n].status = "completed"
           /\ status.tasks[n].status = "pending"
    /\ \E m \in DOMAIN gate_call.pre :
           /\ gate_call.pre[m].status = "passed"
           /\ status.tasks[m].status = "passed"

\* Task n is the only unfinished task: it is Pending with every dependency
\* Passed, every other task is Passed or Failed, and some task is Failed.
OnlyPendingBesideFailed(n) ==
    /\ status_file.current_layer # "none"
    /\ n \in DOMAIN status_file.tasks
    /\ status_file.tasks[n].status = "pending"
    /\ \A dep \in status_file.tasks[n].depends_on :
           status_file.tasks[dep].status = "passed"
    /\ \A m \in DOMAIN status_file.tasks \ {n} :
           status_file.tasks[m].status \in {"passed", "failed"}
    /\ \E m \in DOMAIN status_file.tasks :
           status_file.tasks[m].status = "failed"

\* C12 as claimed: a Failed task does not stop the run; a task that does
\* not depend on it (here: the last unfinished task, all of whose
\* dependencies are Passed) is eventually dispatched, also when it belongs
\* to a later layer.
C12_FailedDoesNotStopRun ==
    \A n \in SeqToSet(TaskOrder) :
        OnlyPendingBesideFailed(n) ~>
            ( /\ status_file.current_layer # "none"
              /\ n \in DOMAIN status_file.tasks
              /\ status_file.tasks[n].status # "pending" )

\* The persisted status is missing or was made from another content of the
\* design document.
Stale ==
    \/ status_file.current_layer = "none"
    \/ status_file.design_doc_hash # design.hash

\* C13 as claimed: a handler that runs while the stored hash differs from
\* the hash of the design document (or no status exists) replaces the
\* status by a freshly initialised one before it applies any transition;
\* no handler changes a status whose hash does not match the document.
C13_ReinitOnHashChange ==
    [][ (design' = design /\ Stale) =>
           \/ /\ reinitialized'
              /\ status'.design_doc_hash = design.hash
              /\ status_file'.design_doc_hash = design.hash
           \/ /\ status_file' = status_file
              /\ status' = status_file ]_vars

\* C14 as claimed: when a handler returns, the status file holds the status
\* as the handler left it (every changed task status, iteration, gate
\* record and current_layer was written before the return).
C14_SavedBeforeReturn ==
    /\ status_file.current_layer = status.current_layer
    /\ status.current_layer # "none" =>
           /\ \A n \in DOMAIN status.tasks :
                  /\ status_file.tasks[n].status = status.tasks[n].status
                  /\ status_file.tasks[n].iteration = status.tasks[n].iteration
           /\ status_file.gates = status.gates

\* C15: a SubagentStop event naming a task whose status is not Dispatched
\* leaves every task status, iteration counter, gate record and
\* current_layer unchanged (in the handler's status and in the file) and
\* runs no gate: a completion signal that arrives again while the task is
\* no longer Dispatched is not counted.
C15_DuplicateSubagentStopIgnored ==
    [][ \A t \in SeqToSet(TaskOrder) :
          ( /\ status_file.current_layer # "none"
            /\ t \in DOMAIN status_file.tasks
            /\ status_file.tasks[t].status # "dispatched"
            /\ handle_subagent_stop(t) )
          => /\ status_file' = status_file
             /\ status' = status_file
             /\ ~gate_call'.ran
             /\ dispatched_now' = {} ]_vars

\* C15 witness: a SubagentStop event was ignored while a task of the run
\* is Completed and waiting for the other subagents of its layer.
C15_Witness ==
    /\ outcome = [ event |-> "SubagentStop", result |-> "ignored" ]
    /\ status_file.current_layer # "none"
    /\ \E n, m \in DOMAIN status_file.tasks :
           /\ status_file.tasks[n].status = "completed"
           /\ status_file.tasks[m].status = "dispatched"
           /\ status_file.tasks[m].layer = status_file.tasks[n].layer

\* The handler that loaded the status with current_layer = from returns
\* with current_layer = to: to is the immediate successor of from and every
\* task of from is Passed or Skipped.
AdvanceOk(from, to, tasks) ==
    /\ from \in LayerNames /\ to \in LayerNames
    /\ LayerIndex(to) = LayerIndex(from) + 1
    /\ \A n \in TasksOfLayer(tasks, from) :
           tasks[n].status \in {"passed", "skipped"}

\* A step in which the current layer of an existing status changes.
LayerChanges ==
    /\ status_file.current_layer # "none"
    /\ \/ status'.current_layer # status_file.current_layer
       \/ status_file'.current_layer # status_file.current_layer

\* C16 as claimed: current_layer only ever changes to the immediate
\* successor of its value in the layer order, and only when every task of
\* the layer being left is Passed or Skipped.
C16_Original ==
    [][ LayerChanges =>
          /\ AdvanceOk(status_file.current_layer, status'.current_layer,
                       status'.tasks)
          /\ status_file'.current_layer = status'.current_layer ]_vars

\* C16 amended: the same for every handler that keeps the status it
\* loaded; a handler that finds the hash of the design document changed
\* starts again from the first layer, whatever the current layer was.
C16_LayerAdvance ==
    [][ LayerChanges =>
          /\ status_file'.current_layer = status'.current_layer
          /\ IF reinitialized'
             THEN \/ status'.current_layer = LayerOrder[1]
                  \/ AdvanceOk(LayerOrder[1], status'.current_layer,
                               status'.tasks)
             ELSE AdvanceOk(status_file.current_layer, status'.current_layer,
                            status'.tasks) ]_vars

\* C16 witness: handle_subagent_stop has advanced current_layer past a
\* layer with two tasks, both Passed.
C16_Witness ==
    /\ outcome = [ event |-> "SubagentStop", result |-> "advanced" ]
    /\ status_file.current_layer = LayerOrder[2]
    /\ Cardinality(TasksOfLayer(status_file.tasks, LayerOrder[1])) >= 2
    /\ \A n \in TasksOfLayer(status_file.tasks, LayerOrder[1]) :
           status_file.tasks[n].status = "passed"

(***************************************************************************)
(* Properties of run_verification.                                         *)
(***************************************************************************)
\* C17 as claimed: no task is started before every task it depends on has
\* finished Passed or Skipped; a task whose dependency ended Failed is not
\* started.
C17_StartAfterDepsPassed ==
    \A n \in running :
        \A dep \in config_tasks[n] \cap DOMAIN config_tasks :
            /\ dep \in DOMAIN results
            /\ results[dep] \in {"passed", "skipped"}

(***************************************************************************)
(* Properties of the merge pass.                                           *)
(***************************************************************************)
\* C18 as claimed: each workspace is rebased onto the trunk head as it
\* stands after the earlier workspaces of the pass were merged, so a
\* workspace whose rebase succeeded (and whose reverification passed) can
\* be fast-forward merged: trunk is an ancestor of its branch.
C18_RebasedOntoTrunk ==
    pass_pc = "merge" =>
        IsPrefix(trunk, branches[worktree_order[pass_i]])

\* C19 as claimed: trunk is only ever advanced by fast-forward.  No merge
\* step of either implementation puts a merge commit on trunk: a step that
\* changes trunk moves it to the branch it merged, of which the old trunk
\* is an ancestor; a branch that cannot be fast-forwarded is reported as
\* failed and trunk is left unchanged.
C19_FastForwardOnly ==
    /\ \A i \in 1..Len(trunk) : ~trunk[i].merge
    /\ \A k \in 1..Len(pass_log) :
           LET e == pass_log[k]
           IN /\ e.trunk_after # e.trunk_before =>
                     /\ IsPrefix(e.trunk_before, e.trunk_after)
                     /\ e.trunk_after = e.branch_before
              /\ ( /\ e.outcome \in {"fast_forward", "merge_commit",
                                      "merge_failed"}
                   /\ ~CanFastForward(e.trunk_before, e.branch_before) )
                 => (~e.ok /\ e.trunk_after = e.trunk_before)

\* C20: when the rebase of a workspace conflicts, the pass aborts that
\* rebase (the branch is as before), records (name, False), neither merges
\* nor removes the workspace, leaves trunk unchanged by it and goes on to
\* the next workspace: the returned list has one entry per element of
\* worktree_order.  For [W1 merged, W2 conflicting on its rebase] the
\* result is [(W1, True), (W2, False)] and trunk holds W1's commit and not
\* W2's.
C20_RebaseConflictHandled ==
    /\ Len(pass_log) = Len(pass_results)
    /\ \A k \in 1..Len(pass_log) :
           LET e == pass_log[k]
           IN /\ e.name = worktree_order[k]
              /\ e.outcome = "rebase_conflict" =>
                     /\ pass_results[k] = << e.name, FALSE >>
                     /\ e.trunk_after = e.trunk_before
                     /\ e.branch_after = e.branch_before
                     /\ Commit(e.name) \in SeqToSet(e.branch_after)
                     /\ e.registered_after
                     /\ e.dir_after
    /\ pass_pc = "returned" => Len(pass_results) = Len(worktree_order)
    /\ ( /\ pass_pc = "returned"
         /\ Len(worktree_order) = 2
         /\ worktree_order[1] # worktree_order[2]
         /\ pass_log[1].outcome = "fast_forward"
         /\ pass_log[2].outcome = "rebase_conflict" )
       => /\ pass_results = << << worktree_order[1], TRUE >>,
                               << worktree_order[2], FALSE >> >>
          /\ worktree_order[1] \in Ids(trunk)
          /\ worktree_order[2] \notin Ids(trunk)

\* C20 witness: linear_rebase_all has returned for [W1, W2] where W1 was
\* merged and the rebase of W2 conflicted.
C20_Witness ==
    /\ impl = "manager"
    /\ pass_pc = "returned"
    /\ Len(worktree_order) = 2
    /\ worktree_order[1] # worktree_order[2]
    /\ pass_log[1].outcome = "fast_forward"
    /\ pass_log[2].outcome = "rebase_conflict"
    /\ worktree_order[1] \in Ids(trunk)

\* C21: whenever linear_rebase_all returns, its result holds exactly one
\* (name, success) pair per element of worktree_order, in the same order.
\* The workspaces are dealt with one after the other: while workspace i is
\* at its rebase, reverify or merge step, exactly the i-1 workspaces before
\* it are finished, the callback has been awaited for none after it, and
\* every merge starts from the trunk the step before it left, so no two
\* merges into trunk overlap.
C21_OnePairPerWorkspaceInOrder ==
    impl = "manager" =>
        /\ pass_pc = "returned" =>
               /\ Len(pass_results) = Len(worktree_order)
               /\ \A k \in 1..Len(worktree_order) :
                      /\ pass_results[k][1] = worktree_order[k]
                      /\ pass_results[k][2] \in BOOLEAN
        /\ pass_pc \in {"rebase", "reverify", "merge", "raised"} =>
               /\ Len(pass_results) = pass_i - 1
               /\ Len(pass_log) = pass_i - 1
        /\ pass_pc \in {"reverify", "merge", "raised"} =>
               pass_i \in 1..Len(worktree_order)
        /\ \A k \in 1..Len(pass_log) : pass_log[k].name = worktree_order[k]
        /\ \A k \in 1..Len(reverify_calls) :
               \E j \in 1..Len(worktree_order) :
                   /\ j <= pass_i
                   /\ worktree_order[j] = reverify_calls[k].name
        /\ \A k \in 1..(Len(pass_log) - 1) :
               pass_log[k + 1].trunk_before = pass_log[k].trunk_after
        /\ pass_log # << >> => pass_log[Len(pass_log)].trunk_after = trunk

\* C21 witness: linear_rebase_all has returned for two different
\* workspaces, the first not merged and the second merged after it.
C21_Witness ==
    /\ impl = "manager"
    /\ pass_pc = "returned"
    /\ Len(worktree_order) = 2
    /\ worktree_order[1] # worktree_order[2]
    /\ pass_results = << << worktree_order[1], FALSE >>,
                         << worktree_order[2], TRUE >> >>
    /\ trunk # pass_log[1].trunk_before

\* C22: the reverify callback is awaited for a workspace only when one was
\* supplied, after the rebase of that workspace succeeded (its branch sits
\* on origin/main as fetched) and before its merge (nothing is recorded for
\* it yet), at most once per workspace of the pass; a workspace whose
\* rebase failed is not reverified, and every workspace that reaches its
\* merge step with a callback supplied has been reverified.  When the
\* callback reports failure the workspace is recorded (name, False), trunk
\* is as before, and the pass goes on: a returned pass has one result per
\* workspace.
C22_ReverifyBetweenRebaseAndMerge ==
    /\ pass_pc = "reverify" =>
           /\ reverify_given
           /\ Len(pass_log) = pass_i - 1
           /\ IsPrefix(tracking, branches[worktree_order[pass_i]])
    /\ reverify_calls # << >> => reverify_given
    /\ (reverify_given /\ pass_pc \in {"merge", "raised"}) =>
           /\ reverify_calls # << >>
           /\ reverify_calls[Len(reverify_calls)] =
                  [ name |-> worktree_order[pass_i], at |-> pass_i,
                    passed |-> TRUE ]
    /\ \A c \in 1..Len(reverify_calls) :
           LET call == reverify_calls[c]
           IN /\ call.name = worktree_order[call.at]
              /\ c > 1 => reverify_calls[c - 1].at < call.at
              /\ call.at <= Len(pass_log) =>
                     pass_log[call.at].outcome \in
                         IF call.passed
                         THEN {"fast_forward", "merge_failed"}
                         ELSE {"reverify_failed"}
    /\ \A k \in 1..Len(pass_log) :
           LET e == pass_log[k]
               called == \E c \in 1..Len(reverify_calls) :
                             reverify_calls[c].at = k
           IN /\ e.outcome = "reverify_failed" =>
                     /\ called
                     /\ pass_results[k] = << e.name, FALSE >>
                     /\ e.trunk_after = e.trunk_before
                     /\ IsPrefix(e.onto, e.branch_before)
              /\ ( /\ reverify_given
                   /\ e.outcome \in {"fast_forward", "merge_failed"} )
                 => called
              /\ e.outcome \in {"no_worktree", "rebase_failed",
                                 "rebase_conflict"}
                 => ~called
    /\ (reverify_given /\ pass_pc = "returned") =>
           Len(pass_results) = Len(worktree_order)

\* C22 witness: a returned pass with a callback in which the first
\* workspace failed its reverification and the second was then reverified
\* and merged.
C22_Witness ==
    /\ reverify_given
    /\ pass_pc = "returned"
    /\ Len(worktree_order) = 2
    /\ pass_log[1].outcome = "reverify_failed"
    /\ pass_log[2].outcome = "fast_forward"
    /\ trunk # pass_log[2].trunk_before
    /\ Len(reverify_calls) = 2
    /\ ~reverify_calls[1].passed

\* C23: after a workspace has been merged into trunk it is deleted: it is
\* no longer registered with the manager (or recorded on the task) and its
\* working copy no longer exists.
C23_MergedWorkspaceDeleted ==
    \A k \in 1..Len(pass_log) :
        LET e == pass_log[k]
        IN (e.ok /\ e.outcome \in {"fast_forward", "merge_commit"}) =>
               /\ ~e.registered_after
               /\ ~e.dir_after

\* C24: a failing rebase, reverification or merge step of one workspace,
\* a failing git checkout or merge command included, is that workspace's
\* own failed outcome: a pass that has ended has dealt with every
\* workspace of worktree_order and reports each of them.
C24_FailureNeverEndsThePass ==
    /\ pass_pc # "raised"
    /\ pass_pc = "returned" =>
           /\ Len(pass_results) = Len(worktree_order)
           /\ \A k \in 1..Len(worktree_order) :
                  pass_results[k][1] = worktree_order[k]

\* The workspaces and registry entries made for other tasks than task_name
\* are after the step what they were before it, their branches exist, and
\* the workspace the step returns has another path and another branch.
OthersUntouched(task_name) ==
    /\ \A q \in DOMAIN wt_disk :
           wt_disk[q].task_name # task_name =>
               /\ q \in DOMAIN wt_disk'
               /\ wt_disk'[q] = wt_disk[q]
               /\ wt_disk[q].branch \in git_branches'
               /\ wt_last'.returned # << >> =>
                      /\ wt_last'.returned.path # q
                      /\ wt_last'.returned.branch # wt_disk[q].branch
    /\ \A n \in DOMAIN mgr_worktrees :
           mgr_worktrees[n].task_name # task_name =>
               /\ n \in DOMAIN mgr_worktrees'
               /\ mgr_worktrees'[n] = mgr_worktrees[n]

\* C25: a create_worktree call for one task yields a workspace whose path
\* and branch differ from those of the workspaces of all other tasks, and
\* it leaves those workspaces registered and intact: it never removes,
\* replaces or reuses the workspace or branch of another task.
C25_CreateLeavesOtherTasksAlone ==
    [][ \A task_name \in WtTaskNames :
            (create_worktree(task_name) \/ hook_create_worktree(task_name))
                => OthersUntouched(task_name) ]_vars

\* C26: outside cleanup_all, a call of the WorktreeManager in which a git
\* command failed raises WorktreeError or returns an explicit failure: no
\* call with a failed command looks like a success to its caller.
C26_GitFailureSurfaced ==
    ( /\ wt_impl = "manager"
      /\ wt_last.op \in {"create_worktree", "remove_worktree"}
      /\ wt_last.failed # {} )
    => wt_last.raised

\* The batch of a returned schedule that holds task n (0: none).
BatchIndex(n) ==
    IF BatchesOf(n) = {} THEN 0 ELSE CHOOSE i \in BatchesOf(n) : TRUE

\* C27: with a filter, a dependency on a task outside the filtered set is
\* ignored: it raises no error (CycleError is raised only for a cycle among
\* the filtered tasks) and the dependent is placed as if it were satisfied,
\* one batch after the last of its filtered dependencies, in the first
\* batch when it has none.  A dependency between two filtered tasks is
\* enforced, and tasks outside the filter and filter names unknown to the
\* configuration are in no batch.
C27_FilterIgnoresOutsideDeps ==
    (task_filter.given /\ sched_pc \in {"raised", "returned"}) =>
        LET filtered == { n \in task_filter.names : n \in DOMAIN config_tasks }
        IN /\ sched_pc = "raised" =>
                  \E n \in filtered : n \in TransDeps(n)
           /\ sched_pc = "returned" =>
                  /\ \A i \in 1..Len(batches) : batches[i] \subseteq filtered
                  /\ \A n \in filtered :
                         LET inside == config_tasks[n] \cap filtered
                         IN /\ BatchIndex(n) >= 1
                            /\ \A d \in inside : BatchIndex(d) < BatchIndex(n)
                            /\ inside = {} => BatchIndex(n) = 1
                            /\ inside # {} =>
                                   \E d \in inside :
                                       BatchIndex(n) = BatchIndex(d) + 1
                  /\ \A n \in TaskNames \ filtered : BatchIndex(n) = 0

\* C27 witness: a filtered schedule returned in which a task depends on a
\* configured task outside the filter and on a filtered one, a first-batch
\* task depends on a configured task outside the filter, and the filter
\* names a task the configuration does not have.
C27_Witness ==
    /\ task_filter.given
    /\ sched_pc = "returned"
    /\ task_filter.names \ DOMAIN config_tasks # {}
    /\ Len(batches) >= 2
    /\ \E n \in batches[1] :
           config_tasks[n] \cap (DOMAIN config_tasks \ task_filter.names) # {}
    /\ \E n \in SchedSet :
           /\ config_tasks[n] \cap (DOMAIN config_tasks \ task_filter.names) # {}
           /\ config_tasks[n] \cap SchedSet # {}
           /\ BatchIndex(n) = 2

\* C28: a second schedule_tasks call on the same scheduler for the same
\* unfiltered task set returns the same number of batches and, at every
\* index, a batch of the same task names (and the same total_tasks and
\* max_parallelism): the first call leaves nothing behind that changes the
\* second; and when the first call raised CycleError the second does not
\* return either.
C28_SecondCallSameBatches ==
    /\ (prev_result # NoResult /\ sched_pc = "returned") =>
           /\ prev_result.returned
           /\ prev_result.task_filter = task_filter
           /\ Len(batches) = Len(prev_result.batches)
           /\ \A i \in 1..Len(batches) : batches[i] = prev_result.batches[i]
           /\ total_tasks = prev_result.total_tasks
           /\ max_parallelism = prev_result.max_parallelism
    /\ (prev_result # NoResult /\ prev_result.returned) =>
           sched_pc \in {"loop", "returned"}

\* C28 witness: the second call has returned a schedule of three batches,
\* one of them with two tasks.
C28_Witness ==
    /\ prev_result # NoResult
    /\ sched_pc = "returned"
    /\ Len(batches) = 3
    /\ max_parallelism = 2

\* Position of task n in the flat order q (0: absent).
PosIn(q, n) ==
    IF \E i \in 1..Len(q) : q[i] = n
    THEN CHOOSE i \in 1..Len(q) : q[i] = n
    ELSE 0

\* C29: for every acyclic task set get_task_order returns (it raises only
\* for a cycle), and the list holds each configured task exactly once and
\* every task after all of its configured dependencies.  It is consistent
\* with schedule_tasks: a task of an earlier batch that a task of a later
\* batch depends on precedes it in the flat order.
C29_FlatOrderTopological ==
    order_result.called =>
        /\ order_result.raised <=> Cyclic
        /\ ~order_result.raised =>
               LET o == order_result.order
               IN /\ Len(o) = Cardinality(DOMAIN config_tasks)
                  /\ SeqToSet(o) = DOMAIN config_tasks
                  /\ \A i, j \in 1..Len(o) :
                         o[j] \in config_tasks[o[i]] => j < i
                  /\ sched_pc = "returned"
                  /\ \A bi, bj \in 1..Len(batches) :
                         \A A \in batches[bi], B \in batches[bj] :
                             (bi < bj /\ A \in config_tasks[B])
                                 => PosIn(o, A) < PosIn(o, B)

\* C29 witness: get_task_order returned four tasks, two of which share a
\* batch of the schedule and one of which depends on both.
C29_Witness ==
    /\ order_result.called
    /\ ~order_result.raised
    /\ Len(order_result.order) = 4
    /\ \E i \in 1..Len(batches) :
           /\ Cardinality(batches[i]) = 2
           /\ \E n \in DOMAIN config_tasks : batches[i] \subseteq config_tasks[n]

\* The configured layers a configured layer depends on.
LayerDepsIn(l) == config_layers[l] \cap DOMAIN config_layers

RECURSIVE LayerDepClosure(_)
LayerDepClosure(S) ==
    LET next == S \cup UNION { LayerDepsIn(m) : m \in S }
    IN IF next = S THEN S ELSE LayerDepClosure(next)

LayersCyclic ==
    \E l \in DOMAIN config_layers : l \in LayerDepClosure(LayerDepsIn(l))

\* The batches of a schedule_layers result that hold layer l.
LayerBatchesOf(l) ==
    { i \in 1..Len(layers_result.batches) :
        PseudoTaskName(l) \in layers_result.batches[i] }

LayersEarlier(i) ==
    UNION { layers_result.batches[k] : k \in 1..(i - 1) }

\* What C30 says of a result of schedule_layers.
LayersPlaced ==
    /\ \A l \in DOMAIN config_layers : Cardinality(LayerBatchesOf(l)) = 1
    /\ \A i \in 1..Len(layers_result.batches) :
           /\ layers_result.batches[i] # {}
           /\ layers_result.batches[i] \subseteq
                  { PseudoTaskName(l) : l \in DOMAIN config_layers }
    /\ \A l \in DOMAIN config_layers : \A d \in LayerDepsIn(l) :
           \A i \in LayerBatchesOf(l), j \in LayerBatchesOf(d) : j < i
    /\ \A i \in 1..Len(layers_result.batches) :
           \A l \in DOMAIN config_layers :
               ( /\ PseudoTaskName(l) \notin LayersEarlier(i)
                 /\ { PseudoTaskName(d) : d \in LayerDepsIn(l) }
                        \subseteq LayersEarlier(i) )
               => PseudoTaskName(l) \in layers_result.batches[i]
    /\ layers_result.total_tasks = Cardinality(DOMAIN config_layers)

\* C30 as stated: every call of schedule_layers places every configured
\* layer, as pseudo-task 'layer:<name>', in exactly one batch, strictly
\* later than every configured layer it depends on, every batch maximal,
\* total_tasks the number of layers.
C30_Original ==
    layers_result.called =>
        (~layers_result.raised /\ LayersPlaced)

\* C30: when the dependencies among the configured layers have no cycle,
\* schedule_layers returns, every configured layer is in exactly one batch
\* as pseudo-task 'layer:<name>', strictly later than every configured
\* layer it depends on, every batch is maximal, and total_tasks is the
\* number of layers; with a cycle it raises CycleError and returns nothing.
C30_LayersBatched ==
    layers_result.called =>
        /\ layers_result.raised <=> LayersCyclic
        /\ ~layers_result.raised => LayersPlaced

\* C30 witness: schedule_layers returned two batches, the first with two
\* independent layers, for a configuration in which a layer names a layer
\* that is not configured.
C30_Witness ==
    /\ layers_result.called
    /\ ~layers_result.raised
    /\ Len(layers_result.batches) = 2
    /\ Cardinality(layers_result.batches[1]) = 2
    /\ layers_result.max_parallelism = 2
    /\ \E l \in DOMAIN config_layers :
           config_layers[l] \ DOMAIN config_layers # {}

\* C31: a gate invocation that times out returns a failed result (passed
\* false, exit code not 0) and does not raise; the handler that called it
\* returns the gate-failure response, every Completed task of the gate's
\* layer has its iteration raised by one and is Pending below
\* max_iterations and Failed from there on, every other task is as before,
\* and the status file holds that status.
C31_TimeoutIsGateFailure ==
    (gate_call.ran /\ gate_call.run = "timeout") =>
        /\ run_makefile_gate("timeout").returned
        /\ ~gate_call.passed
        /\ gate_call.exit_code # 0
        /\ outcome.result = "gate_failed"
        /\ \A n \in DOMAIN gate_call.pre :
               IF n \in CompletedIn(gate_call.pre, gate_call.layer)
               THEN /\ gate_call.post[n].iteration =
                          gate_call.pre[n].iteration + 1
                    /\ gate_call.post[n].status =
                          IF gate_call.pre[n].iteration + 1 >= status.max_iterations
                          THEN "failed" ELSE "pending"
               ELSE gate_call.post[n] = gate_call.pre[n]
        /\ status.tasks = gate_call.post
        /\ status_file = status

\* A gate called by handle_subagent_stop timed out on a task that had
\* been sent back once before, and the task became Failed.
C31_Witness ==
    /\ gate_call.ran /\ gate_call.run = "timeout"
    /\ outcome.event = "SubagentStop"
    /\ \E n \in CompletedIn(gate_call.pre, gate_call.layer) :
           /\ gate_call.pre[n].iteration = 1
           /\ status.tasks[n].status = "failed"

(***************************************************************************)
(* Properties of _run_batch and of the report.                             *)
(***************************************************************************)
\* C32 as claimed: whatever order the tasks of a batch finish in, and
\* whether each returns a result or raises, _run_batch yields exactly one
\* TaskResult per task of the batch, and the i-th of them carries the name
\* of the i-th task and the status that task produced (Failed for a task
\* that raised).
C32_OneResultPerTask ==
    (run_pc = "batch_done" /\ ~dry_run) =>
        LET batch == schedule[run_i + 1]
        IN /\ Len(batch_results) = Len(batch)
           /\ \A i \in 1..Len(batch) :
                /\ batch_results[i].kind = "TaskResult"
                /\ batch_results[i].task_name = batch[i]
                /\ batch_results[i].status =
                       IF coros[i] = "passed" THEN "passed" ELSE "failed"

\* C39 as claimed: in the report run_verification returns, dry runs
\* included, overall_status is Passed exactly when every layer result has
\* status Passed and gate_passed true, and passed_tasks + failed_tasks is
\* at most total_tasks.
C39_ReportConsistent ==
    run_pc = "returned" =>
        /\ report.overall_status = "passed" <=>
               \A l \in DOMAIN report.layer_results :
                   /\ report.layer_results[l].status = "passed"
                   /\ report.layer_results[l].gate_passed
        /\ report.passed_tasks + report.failed_tasks <= report.total_tasks

(***************************************************************************)
(* Further properties of the hook orchestrator.                            *)
(***************************************************************************)
\* C33 as claimed: every Dispatched task has a workspace recorded for it; a
\* task whose workspace could not be created is not moved to Dispatched.
C33_DispatchedHasWorkspace ==
    status.current_layer # "none" =>
        \A n \in DOMAIN status.tasks :
            status.tasks[n].status = "dispatched" =>
                status.tasks[n].worktree_path

\* The decision of the response handle_stop_event returns: "approve" on the
\* returns of lines 977 and 1031, "block" on every other return taken with a
\* design document.
StopDecision(result) ==
    IF result \in {"all_complete", "approve"} THEN "approve" ELSE "block"

\* C34 as claimed: with a design document, handle_stop_event approves only
\* when every task of every layer is Passed or Skipped; while a task is
\* Pending, Dispatched, Completed or Failed it blocks.
C34_ApproveOnlyWhenAllDone ==
    (outcome.event = "Stop" /\ StopDecision(outcome.result) = "approve") =>
        \A n \in DOMAIN status_file.tasks :
            status_file.tasks[n].status \in {"passed", "skipped"}

\* Each of the two handlers read the status file before the other one wrote
\* it: the status it loaded shows both tasks Dispatched.
HandlersOverlapped ==
    \A h, g \in RaceHandlers :
        /\ handlers[h].pc # "start"
        /\ handlers[h].status.tasks[handlers[g].task].status = "dispatched"

\* C35 as claimed: when the SubagentStop events of two Dispatched tasks of
\* one layer are handled by overlapping handler runs, then after both have
\* finished the status file holds both tasks as Completed or a later status
\* (no longer Dispatched).
C35_NoLostCompletion ==
    ( /\ handlers # << >>
      /\ \A h \in RaceHandlers : handlers[h].pc = "done"
      /\ HandlersOverlapped ) =>
        \A h \in RaceHandlers :
            status_file.tasks[handlers[h].task].status # "dispatched"

\* The last Stop event answered "Waiting on task dependencies" and no later
\* event can change the status: no task is Dispatched or Completed, the
\* current layer is not complete and none of its tasks is ready, so every
\* Stop event answers the same and every SubagentStop event is ignored.
BlockedOnDependencies ==
    /\ outcome = [ event |-> "Stop", result |-> "waiting_dependencies" ]
    /\ status_file.current_layer # "none"
    /\ status_file.design_doc_hash = design.hash
    /\ \A n \in DOMAIN status_file.tasks :
           status_file.tasks[n].status \notin {"dispatched", "completed"}
    /\ ~all_layer_tasks_complete(status_file, status_file.current_layer)
    /\ get_ready_tasks(status_file) = {}

\* C36 as claimed: for every design document that validate_design_document
\* accepts, when every gate invocation passes the orchestrator is never
\* blocked for good on "Waiting on task dependencies" (so that repeated
\* Stop events can reach "all layers complete").
C36_NeverBlockedOnDependencies == ~BlockedOnDependencies

\* C37: in every state of the hook orchestrator that has a status, every
\* Dispatched or Completed task belongs to current_layer, every task of a
\* layer before current_layer is Passed or Skipped, and every task of a
\* layer after current_layer is Pending with iteration 0.
C37_LayerDiscipline ==
    status_file.current_layer # "none" =>
        \A n \in DOMAIN status_file.tasks :
            LET t == status_file.tasks[n]
                cur == LayerIndex(status_file.current_layer)
            IN /\ t.status \in {"dispatched", "completed"} =>
                      t.layer = status_file.current_layer
               /\ LayerIndex(t.layer) < cur =>
                      t.status \in {"passed", "skipped"}
               /\ LayerIndex(t.layer) > cur =>
                      (t.status = "pending" /\ t.iteration = 0)

\* The orchestrator has reached the last layer: a task of the first layer
\* is Passed and a task of the last layer is Dispatched.
C37_Witness ==
    /\ status_file.current_layer = "safety"
    /\ \E n \in DOMAIN status_file.tasks :
           /\ status_file.tasks[n].layer = "requirements"
           /\ status_file.tasks[n].status = "passed"
    /\ \E n \in DOMAIN status_file.tasks :
           /\ status_file.tasks[n].layer = "safety"
           /\ status_file.tasks[n].status = "dispatched"

\* C38 as claimed: in every state of the hook orchestrator in which tasks
\* are Dispatched, their number is at most max_parallel, since a dispatch
\* round starts only when no task is Dispatched and dispatches at most
\* max_parallel ready tasks.
C38_AtMostMaxParallel ==
    status_file.current_layer # "none" =>
        LET dispatched == get_dispatched_tasks(status_file)
        IN dispatched # {} =>
               Cardinality(dispatched) <= status_file.max_parallel

(***************************************************************************)
(* Properties of cleanup_all.                                              *)
(***************************************************************************)
\* C40: cleanup_all calls remove_worktree for every workspace the manager
\* has registered; a call that raises does not keep the later ones from
\* being made, every workspace whose call did not raise is no longer
\* registered afterwards, and cleanup_all itself does not raise.
C40_CleanupAttemptsAll ==
    [][ cleanup_all =>
          /\ ~wt_last'.raised
          /\ wt_last'.attempted = DOMAIN mgr_worktrees
          /\ \A name \in DOMAIN mgr_worktrees \ wt_last'.raising :
                 name \notin DOMAIN mgr_worktrees'
          /\ DOMAIN mgr_worktrees' = wt_last'.raising ]_vars

\* cleanup_all has returned after one removal raised and another workspace
\* was removed.
C40_Witness ==
    /\ wt_last.op = "cleanup_all"
    /\ ~wt_last.raised
    /\ wt_last.raising # {}
    /\ wt_last.attempted \ wt_last.raising # {}
    /\ DOMAIN mgr_worktrees = wt_last.raising

====
